---- MODULE Spec2Model ----
(***************************************************************************)
(* A model of the tana runtime's host/guest capability bridge:             *)
(*   - the staged key-value store (the op_data ops),                       *)
(*   - the egress gateway (op_fetch) and the ledger queries that reach the *)
(*     network (op_block_get_balance / _user / _transaction),              *)
(*   - the per-invocation isolate bootstrap of run_contract,               *)
(*   - the transaction ledger and its gas counter (the op_tx ops),         *)
(*   - the dispatch of a request to a contract's entry point, in the edge  *)
(*     server and in the CLI runtime,                                      *)
(*   - the embeddable TanaRuntime of src/runtime/src/lib.rs,               *)
(*   - the staged store under concurrent invocations, lock by lock,        *)
(*   - the process-wide store and ledger across invocations,               *)
(*   - the selection of a contract's source file by the edge server,       *)
(*   - the edge server's ops run in lockstep with the CLI runtime's.       *)
(* Each part has its own specification (SpecStore, SpecNet, SpecBoot,      *)
(* SpecTx, SpecDispatch, SpecLib, SpecConc, SpecProc, SpecLedger,          *)
(* SpecSelect, SpecEquiv) over the one list of variables; a specification  *)
(* holds the other parts' variables fixed.                                 *)
(* The ops of src/tana-edge/src/main.rs and src/runtime/src/main.rs are    *)
(* textually the same; line references are to the edge server.             *)
(*                                                                         *)
(* Steps.  An op other threads cannot interleave with is one action.  The  *)
(* async ops (op_fetch, the block queries) await their request: one action *)
(* checks and sends, one takes the response and returns.  op_data_keys,    *)
(* op_data_clear and op_data_commit lock STORAGE first and STAGING after:  *)
(* one action takes STORAGE (op_data_clear empties the map under it), the  *)
(* next takes STAGING and runs to the return.  op_data_commit releases     *)
(* STAGING before it clears the buffer: one more action clears and         *)
(* returns.  The ops of other request threads that need STAGING alone run  *)
(* between these steps; a get or has of an unstaged key locks STAGING,     *)
(* then STORAGE, and with STORAGE held neither thread proceeds.            *)
(*                                                                         *)
(* Strings.  A key, a hostname or a pattern is the sequence of its         *)
(* characters (one-character strings), so its byte length is Len and       *)
(* ends_with is a comparison of suffixes.  A stored value is only ever      *)
(* measured and compared by the store, never inspected: it is written      *)
(* [ch |-> c, len |-> n], the string of n copies of the character c.       *)
(* An Option<T> is a sequence of length at most one: <<>> is None and      *)
(* <<x>> is Some(x).                                                       *)
(***************************************************************************)
EXTENDS Integers, Sequences, FiniteSets, Bags, TLC

VARIABLES
    storage,    \* STORAGE: committed map key -> value
    staging,    \* STAGING: map key -> Option<value>; <<v>> = set, <<>> = delete
    last,       \* the last store call that returned: op, arguments, result, output
    holding,    \* the keys, clear or commit that holds STORAGE between its steps, if any
    net,        \* the outbound requests issued so far, in order
    fret,       \* the result of the last network-reaching op that returned
    awaiting,   \* the bag of async ops whose request is sent, their future pending
    ledgerHost, \* host of the ledger API's URL (TANA_LEDGER_URL, default localhost)
    pc,         \* per invocation: the step run_contract has reached
    globals,    \* per invocation: the names bound on the isolate's global scope
    precomp,    \* per invocation: is_precompiled
    txChanges,  \* TX_CHANGES: the pending state-change intents, in order
    gasUsed,    \* MOCK_GAS_USED: the cumulative gas counter
    txRet,      \* the last tx call: its op and what it returned
    program,    \* the program that dispatches: the edge server or the CLI runtime
    proc,       \* the host process: running, exited or panicked
    dpc,        \* the step the invocation in flight has reached
    dreq,       \* the invocation in flight: method, contract file and source
    called,     \* the entry point the runner invoked
    cres,       \* __contractResult: unset, or the value assigned to it
    drained,    \* whether run_event_loop has completed for this invocation
    fatal,      \* the fatal error of this invocation, if any
    response,   \* the JSON result handed to the HTTP handler, if any
    rtTs,       \* TanaRuntime.typescript_loaded
    rtGlobals,  \* the names bound in the global scope of TanaRuntime.runtime
    rtUndef,    \* those of them declared (var) whose value is undefined
    rtOut,      \* OUTPUT: the lines printed since the last execute began
    rtErrs,     \* ERRORS: the lines written to stderr since the last execute began
    rtRet,      \* the last TanaRuntime call and its result
    storageLock, \* the invocation whose op holds the STORAGE lock, or 0
    stagingLock, \* the invocation whose op holds the STAGING lock between steps, or 0
    inflight,   \* the staged changes that commit has applied to STORAGE
    tpc,        \* per invocation: the store op it is inside of and its key
    run,        \* per invocation: whether run_contract is executing it
    actor,      \* the invocation that made the last store or tx call, or 0
    stagedBy,   \* history: for each staged key, the invocation that staged it
    tags,       \* history: for each pending change, who queued it and its serial number
    nextTag,    \* history: the number of changes queued so far
    returned,   \* history: the changes returned in successful receipts, in order
    failed,     \* history: the batches execute has rejected: by whom and how long
    sel,        \* source selection: the invocation in flight, its file and its steps
    cli,        \* the CLI runtime process: its statics and its last call records
    overlap     \* history: a store op of the edge server ran inside a commit

storeVars == <<storage, staging, last, holding>>
netVars   == <<net, fret, awaiting, ledgerHost>>
bootVars  == <<pc, globals, precomp>>
txVars    == <<txChanges, gasUsed, txRet>>
dispVars  == <<program, proc, dpc, dreq, called, cres, drained, fatal, response>>
libVars   == <<rtTs, rtGlobals, rtUndef, rtOut, rtErrs, rtRet>>
concVars  == <<storageLock, stagingLock, inflight, tpc>>
procVars  == <<run, actor, stagedBy, tags, nextTag, returned, failed>>

selVars   == <<sel>>
eqVars    == <<cli, overlap>>

vars == <<storeVars, netVars, bootVars, txVars, dispVars, libVars, concVars, procVars,
          selVars, eqVars>>

\* what the ops of one component leave alone
notStoreVars == <<netVars, bootVars, txVars, dispVars, libVars, concVars, procVars, selVars,
                 eqVars>>
notNetVars   == <<storeVars, bootVars, txVars, dispVars, libVars, concVars, procVars, selVars,
                 eqVars>>
notBootVars  == <<storeVars, netVars, txVars, dispVars, libVars, concVars, procVars, selVars,
                 eqVars>>
notTxVars    == <<storeVars, netVars, bootVars, dispVars, libVars, concVars, procVars, selVars,
                 eqVars>>
notDispVars  == <<storeVars, netVars, bootVars, txVars, libVars, concVars, procVars, selVars,
                 eqVars>>
notLibVars   == <<storeVars, netVars, bootVars, txVars, dispVars, concVars, procVars, selVars,
                 eqVars>>
notConcVars  == <<holding, netVars, bootVars, txVars, dispVars, libVars, procVars, selVars,
                 eqVars>>
notProcVars  == <<netVars, bootVars, dispVars, libVars, concVars, selVars, eqVars>>
notSelVars   == <<storeVars, netVars, bootVars, txVars, dispVars, libVars, concVars,
                 procVars, eqVars>>
notEqVars    == <<netVars, bootVars, dispVars, libVars, concVars, procVars, selVars>>

\* a component none of whose ops has run and none will: each specification
\* below runs the ops of one component and holds the others in this state
StoreIdle == storage = <<>> /\ staging = <<>> /\ last = <<>> /\ holding = <<>>
NetIdle   == net = <<>> /\ fret = <<>> /\ awaiting = <<>> /\ ledgerHost = <<>>
BootIdle  == pc = <<>> /\ globals = <<>> /\ precomp = <<>>
TxIdle    == txChanges = <<>> /\ gasUsed = 0 /\ txRet = <<>>
DispIdle  == /\ program = "" /\ proc = "" /\ dpc = "" /\ dreq = <<>> /\ called = ""
             /\ cres = <<>> /\ drained = FALSE /\ fatal = <<>> /\ response = <<>>
LibIdle   == /\ rtTs = FALSE /\ rtGlobals = {} /\ rtUndef = {} /\ rtOut = <<>>
             /\ rtErrs = <<>>
             /\ rtRet = <<>>
ConcIdle  == storageLock = 0 /\ stagingLock = 0 /\ inflight = <<>> /\ tpc = <<>>
ProcIdle  == /\ run = <<>> /\ actor = 0 /\ stagedBy = <<>> /\ tags = <<>>
             /\ nextTag = 0 /\ returned = <<>> /\ failed = <<>>
SelIdle   == sel = <<>>
EqIdle    == cli = <<>> /\ overlap = FALSE

(***************************************************************************)
(* Strings                                                                 *)
(***************************************************************************)
\* n copies of the character c
Rep(c, n) == [i \in 1..n |-> c]

\* the value made of n copies of c
Val(c, n) == [ch |-> c, len |-> n]

None == <<>>
Some(x) == <<x>>

\* byte codes of the characters the model's keys use (ASCII)
Ord(c) ==
    CASE c = "*" -> 42 [] c = "." -> 46
      [] c = "0" -> 48 [] c = "1" -> 49 [] c = "2" -> 50 [] c = "3" -> 51
      [] c = "4" -> 52 [] c = "5" -> 53 [] c = "6" -> 54 [] c = "7" -> 55
      [] c = "8" -> 56 [] c = "9" -> 57
      [] c = "a" -> 97 [] c = "b" -> 98 [] c = "k" -> 107 [] c = "x" -> 120

\* String's Ord: byte-wise lexicographic order, a proper prefix first
StrLess(a, b) ==
    \E i \in 1..(Len(a) + 1) :
        /\ i <= Len(b)
        /\ \A j \in 1..(i - 1) : a[j] = b[j]
        /\ \/ i = Len(a) + 1
           \/ Ord(a[i]) < Ord(b[i])

\* str::ends_with
EndsWith(s, suf) ==
    /\ Len(s) >= Len(suf)
    /\ SubSeq(s, Len(s) - Len(suf) + 1, Len(s)) = suf

\* Vec::sort of a set of distinct strings
RECURSIVE SortKeys(_)
SortKeys(S) ==
    IF S = {} THEN <<>>
    ELSE LET m == CHOOSE x \in S : \A y \in S \ {x} : StrLess(x, y)
         IN  <<m>> \o SortKeys(S \ {m})

(***************************************************************************)
(* Staged store: limits                                                    *)
(***************************************************************************)
MAX_KEY_SIZE == 256
MAX_VALUE_SIZE == 10240
MAX_TOTAL_SIZE == 102400
MAX_KEYS == 1000

\* Result<(), JsErrorBox> of a store op; the message's two numbers are kept
Ok == [ok |-> TRUE, kind |-> "", n |-> 0, max |-> 0]
Err(kind, n, max) == [ok |-> FALSE, kind |-> kind, n |-> n, max |-> max]

\* A call record: the op, its key (or pattern) and value arguments, the Result it
\* returned, its output (the Ok payload of a read), and whether it is a commit
\* that directly follows another commit.
NoVal == Val("", 0)
NoCall ==
    [op |-> "none", key |-> <<>>, val |-> NoVal, res |-> Ok, out |-> <<>>,
     again |-> FALSE]
Call(op, key, val, res, out) ==
    [op |-> op, key |-> key, val |-> val, res |-> res, out |-> out,
     again |-> (op = "commit" /\ last.op = "commit")]

EmptyMap == [k \in {} |-> <<>>]

\* key.len() + value.len()
EntrySize(k, v) == Len(k) + v.len

\* sum of key.len() + value.len() over the entries of map m whose key is in K
\* (the entries are grouped by size, so that a thousand entries are summed in
\* a few steps)
RECURSIVE SumBySize(_, _, _)
SumBySize(sizes, m, K) ==
    IF sizes = {} THEN 0
    ELSE LET s == CHOOSE x \in sizes : TRUE
         IN  s * Cardinality({k \in K : EntrySize(k, m[k]) = s})
               + SumBySize(sizes \ {s}, m, K)

SumSizes(m, K) == SumBySize({EntrySize(k, m[k]) : k \in K}, m, K)

(***************************************************************************)
(* Staged store: reads                                                     *)
(***************************************************************************)
\* variant of GetValue that consults committed storage before staging
GetValueStorageFirst(key) ==
    IF key \in DOMAIN storage THEN Some(storage[key])
    ELSE IF key \in DOMAIN staging THEN staging[key]
    ELSE None

\* op_data_get: staging first, then storage
GetValue(key) ==
    IF key \in DOMAIN staging THEN staging[key]
    ELSE IF key \in DOMAIN storage THEN Some(storage[key])
    ELSE None

\* op_data_has: staging first, then storage
HasKey(key) ==
    IF key \in DOMAIN staging THEN staging[key] # None
    ELSE key \in DOMAIN storage

\* a merge that adds the staged keys without removing the staged deletes
AllKeysKeepDeleted == DOMAIN storage \cup DOMAIN staging

\* op_data_keys, the merged key set before filtering and sorting
AllKeys ==
    (DOMAIN storage \ {k \in DOMAIN staging : staging[k] = None})
        \cup {k \in DOMAIN staging : staging[k] # None}

\* glob translated to an anchored regex by op_data_keys: "*" becomes ".*" (any
\* sequence), "." stays the regex "." (any one character), every other
\* character of the model's alphabet is a literal
RECURSIVE RegexMatch(_, _)
RegexMatch(p, s) ==
    IF p = <<>> THEN s = <<>>
    ELSE IF Head(p) = "*"
         THEN \E i \in 0..Len(s) : RegexMatch(Tail(p), SubSeq(s, i + 1, Len(s)))
         ELSE /\ s # <<>>
              /\ Head(p) = "." \/ Head(p) = Head(s)
              /\ RegexMatch(Tail(p), Tail(s))

\* op_data_keys: merged keys, filtered by the pattern when one is given, sorted
KeysResult(pattern) ==
    SortKeys(IF pattern = None THEN AllKeys
             ELSE {k \in AllKeys : RegexMatch(pattern[1], k)})

(***************************************************************************)
(* Staged store: writes                                                    *)
(***************************************************************************)
Insert(m, key, x) == [k \in DOMAIN m \cup {key} |-> IF k = key THEN x ELSE m[k]]

\* variant of SetCheck whose comparisons are off by one
SetCheckOffByOne(key, value) ==
    IF Len(key) >= MAX_KEY_SIZE
    THEN Err("Key too large", Len(key), MAX_KEY_SIZE)
    ELSE IF value.len >= MAX_VALUE_SIZE
    THEN Err("Value too large", value.len, MAX_VALUE_SIZE)
    ELSE Ok

\* op_data_set, the two size validations
SetCheck(key, value) ==
    IF Len(key) > MAX_KEY_SIZE
    THEN Err("Key too large", Len(key), MAX_KEY_SIZE)
    ELSE IF value.len > MAX_VALUE_SIZE
    THEN Err("Value too large", value.len, MAX_VALUE_SIZE)
    ELSE Ok

\* op_data_commit: the store keys not marked for deletion in staging
CommitKept(store, stage) ==
    {k \in DOMAIN store : ~(k \in DOMAIN stage /\ stage[k] = None)}

\* op_data_commit: the staged writes
CommitWrites(stage) == {k \in DOMAIN stage : stage[k] # None}

\* variant of CommitTotalSize that forgets the entries already committed
CommitTotalSizeStagedOnly(store, stage) ==
    SumSizes([k \in CommitWrites(stage) |-> stage[k][1]], CommitWrites(stage))

\* op_data_commit: total_size, the first loop over store then the second over stage
CommitTotalSize(store, stage) ==
    SumSizes(store, CommitKept(store, stage))
        + SumSizes([k \in CommitWrites(stage) |-> stage[k][1]], CommitWrites(stage))

\* op_data_commit: total_keys
CommitTotalKeys(store, stage) ==
    Cardinality(CommitKept(store, stage))
        + Cardinality(CommitWrites(stage) \ DOMAIN store)

\* op_data_commit: limit validation, size first
CommitCheck(store, stage) ==
    IF CommitTotalSize(store, stage) > MAX_TOTAL_SIZE
    THEN Err("Storage limit exceeded", CommitTotalSize(store, stage), MAX_TOTAL_SIZE)
    ELSE IF CommitTotalKeys(store, stage) > MAX_KEYS
    THEN Err("Too many keys", CommitTotalKeys(store, stage), MAX_KEYS)
    ELSE Ok

\* variant of CommitApply that inserts the staged writes and ignores the deletes
CommitApplyNoDelete(store, stage) ==
    [k \in DOMAIN store \cup {w \in DOMAIN stage : stage[w] # None}
        |-> IF k \in DOMAIN stage /\ stage[k] # None THEN stage[k][1] ELSE store[k]]

\* op_data_commit: store after inserting every staged write and removing every
\* staged delete
CommitApply(store, stage) ==
    [k \in (DOMAIN store \ {d \in DOMAIN stage : stage[d] = None})
            \cup {w \in DOMAIN stage : stage[w] # None}
        |-> IF k \in DOMAIN stage THEN stage[k][1] ELSE store[k]]

(***************************************************************************)
(* Staged store: inputs and reachable start states                         *)
(***************************************************************************)
Digits == <<"0", "1", "2", "3", "4", "5", "6", "7", "8", "9">>

\* the key "0001" .. "1000"
NumKey(i) ==
    << Digits[(i \div 1000) + 1], Digits[((i \div 100) % 10) + 1],
       Digits[((i \div 10) % 10) + 1], Digits[(i % 10) + 1] >>

KA == NumKey(1)                       \* a short key
KB == Rep("k", MAX_KEY_SIZE)          \* a key of exactly MAX_KEY_SIZE bytes
KLong == Rep("k", MAX_KEY_SIZE + 1)   \* one byte too long

VSmall == Val("s", 1)
VMax == Val("m", MAX_VALUE_SIZE)      \* a value of exactly MAX_VALUE_SIZE bytes
VOver == Val("o", MAX_VALUE_SIZE + 1) \* one byte too long

SetKeys == {KA, KB, KLong}
SetValues == {VSmall, VMax, VOver}
OpKeys == {KA, KB}
Patterns == {None, Some(<<"0", "*">>), Some(<<"0", "0", ".", "1">>)}

\* committed storage after MAX_KEYS one-byte values were set and committed
KeysFull == [k \in {NumKey(i) : i \in 1..MAX_KEYS} |-> VSmall]

\* committed storage after ten entries were set and committed: KA with a small
\* value and nine fillers, leaving room for exactly one more entry (KB, VMax)
FillerLast ==
    MAX_TOTAL_SIZE - EntrySize(KB, VMax) - EntrySize(KA, VSmall)
        - 8 * EntrySize(NumKey(2), VMax) - Len(NumKey(10))

BytesNear ==
    [k \in {NumKey(i) : i \in 1..10} |->
        IF k = KA THEN VSmall
        ELSE IF k = NumKey(10) THEN Val("f", FillerLast)
        ELSE VMax]

\* keys() is only listed for key sets of at most this many keys
MaxListed == 12

(***************************************************************************)
(* Staged store: the ops                                                   *)
(***************************************************************************)
\* op_data_keys, op_data_clear and op_data_commit lock STORAGE first and hold
\* it to their return; each then locks STAGING.  op_data_commit releases
\* STAGING after it has applied (drop(staging)) and locks it again to clear
\* the buffer.  op_data_get and op_data_has lock STAGING first and, when the
\* key is not staged, STORAGE while they hold it.  The op that holds STORAGE
\* and has yet to take STAGING is recorded with its thread, its name, the
\* step it has reached ("locked": STORAGE taken; "applied": commit only,
\* after drop(staging)) and the thread, if any (0: none), whose get or has
\* has taken STAGING and waits for STORAGE: then neither thread ever
\* proceeds, and no other op that locks ever returns.
Hold(by, op, at) == Some([by |-> by, op |-> op, at |-> at, reader |-> 0])
Held == holding # None
HeldBy(op, at) == holding # None /\ holding[1].op = op /\ holding[1].at = at
InGap == HeldBy("commit", "applied")
Stuck == holding # None /\ holding[1].reader # 0
\* thread i is inside the op that holds STORAGE, or inside the read that
\* blocks it
Busy(i) == holding # None /\ i \in {holding[1].by, holding[1].reader}

\* op_data_set: the size checks take no lock
DataSet(key, value) ==
    /\ Stuck => ~SetCheck(key, value).ok
    /\ staging' = IF SetCheck(key, value).ok
                  THEN Insert(staging, key, Some(value))
                  ELSE staging
    /\ holding' = holding
    /\ last' = Call("set", key, value, SetCheck(key, value), <<>>)
    /\ UNCHANGED <<storage, notStoreVars>>

\* op_data_get: STAGING, then STORAGE when the key is not staged
DataGet(key) ==
    /\ ~Stuck
    /\ Held => key \in DOMAIN staging
    /\ last' = Call("get", key, NoVal, Ok, GetValue(key))
    /\ UNCHANGED <<storage, staging, holding, notStoreVars>>

\* op_data_delete
DataDelete(key) ==
    /\ ~Stuck
    /\ staging' = Insert(staging, key, None)
    /\ holding' = holding
    /\ last' = Call("delete", key, NoVal, Ok, <<>>)
    /\ UNCHANGED <<storage, notStoreVars>>

\* op_data_has: STAGING, then STORAGE when the key is not staged
DataHas(key) ==
    /\ ~Stuck
    /\ Held => key \in DOMAIN staging
    /\ last' = Call("has", key, NoVal, Ok, HasKey(key))
    /\ UNCHANGED <<storage, staging, holding, notStoreVars>>

\* op_data_get / op_data_has of a key that is not staged, while a keys, a
\* clear or a commit holds STORAGE and has yet to take STAGING: the read
\* holds STAGING and waits for STORAGE, the other op holds STORAGE and waits
\* for STAGING
ReadBlocks(key) ==
    /\ Held /\ ~Stuck
    /\ key \notin DOMAIN staging
    /\ holding' = Some([holding[1] EXCEPT !.reader = 2])
    /\ UNCHANGED <<storage, staging, last, notStoreVars>>

\* op_data_keys to its STORAGE.lock().  (The keys a set can add in between
\* are counted in the bound on the listing.)
DataKeysLock ==
    /\ ~Held
    /\ Cardinality(AllKeys \cup OpKeys) <= MaxListed
    /\ holding' = Hold(1, "keys", "locked")
    /\ UNCHANGED <<storage, staging, last, notStoreVars>>

\* op_data_keys from its STAGING.lock() on; the pattern is not used before
DataKeys(pattern) ==
    /\ HeldBy("keys", "locked") /\ ~Stuck
    /\ last' = Call("keys", pattern, NoVal, Ok, KeysResult(pattern))
    /\ holding' = None
    /\ UNCHANGED <<storage, staging, notStoreVars>>

\* a clear that leaves committed storage as it is
DataClearStagingOnly ==
    /\ ~Held
    /\ holding' = Hold(1, "clear", "locked")
    /\ UNCHANGED <<storage, staging, last, notStoreVars>>

\* op_data_clear to store.clear(): STORAGE locked and emptied
DataClearLock ==
    /\ ~Held
    /\ storage' = EmptyMap
    /\ holding' = Hold(1, "clear", "locked")
    /\ UNCHANGED <<staging, last, notStoreVars>>

\* op_data_clear from its STAGING.lock() on
DataClear ==
    /\ HeldBy("clear", "locked") /\ ~Stuck
    /\ staging' = EmptyMap
    /\ last' = Call("clear", <<>>, NoVal, Ok, <<>>)
    /\ holding' = None
    /\ UNCHANGED <<storage, notStoreVars>>

\* op_data_commit to its STORAGE.lock()
DataCommitLock ==
    /\ ~Held
    /\ holding' = Hold(1, "commit", "locked")
    /\ UNCHANGED <<storage, staging, last, notStoreVars>>

\* variant of DataCommit that applies the staged changes before validating, so a
\* rejected commit has already written
DataCommitEager ==
    LET res == CommitCheck(storage, staging)
    IN  /\ HeldBy("commit", "locked") /\ ~Stuck
        /\ storage' = CommitApply(storage, staging)
        /\ staging' = staging
        /\ IF res.ok
           THEN /\ holding' = Hold(holding[1].by, "commit", "applied")
                /\ last' = last
           ELSE /\ holding' = None
                /\ last' = Call("commit", <<>>, NoVal, res, <<>>)
        /\ UNCHANGED notStoreVars

\* variant of DataCommit that applies and unstages a single staged entry per
\* call, and returns
DataCommitOneAtATime ==
    LET res == CommitCheck(storage, staging)
        k == CHOOSE x \in DOMAIN staging : TRUE
        one == [y \in {k} |-> staging[y]]
    IN  /\ HeldBy("commit", "locked") /\ ~Stuck
        /\ IF res.ok /\ staging # EmptyMap
           THEN /\ storage' = CommitApply(storage, one)
                /\ staging' = [y \in DOMAIN staging \ {k} |-> staging[y]]
           ELSE UNCHANGED <<storage, staging>>
        /\ last' = Call("commit", <<>>, NoVal, res, <<>>)
        /\ holding' = None
        /\ UNCHANGED notStoreVars

\* op_data_commit from its first STAGING.lock() to drop(staging): validate;
\* return the error, or apply the staged changes and release STAGING
DataCommit ==
    LET res == CommitCheck(storage, staging)
    IN  /\ HeldBy("commit", "locked") /\ ~Stuck
        /\ IF res.ok
           THEN /\ storage' = CommitApply(storage, staging)
                /\ holding' = Hold(holding[1].by, "commit", "applied")
                /\ last' = last
           ELSE /\ storage' = storage
                /\ holding' = None
                /\ last' = Call("commit", <<>>, NoVal, res, <<>>)
        /\ staging' = staging
        /\ UNCHANGED notStoreVars

\* op_data_commit from the second STAGING.lock() on: clear whatever the
\* buffer holds by now, return Ok
DataCommitClear ==
    /\ InGap /\ ~Stuck
    /\ staging' = EmptyMap
    /\ holding' = None
    /\ last' = Call("commit", <<>>, NoVal, Ok, <<>>)
    /\ UNCHANGED <<storage, notStoreVars>>

StoreInit ==
    /\ storage \in {EmptyMap, KeysFull, BytesNear}
    /\ staging = EmptyMap
    /\ last = NoCall
    /\ holding = None
    /\ NetIdle /\ BootIdle /\ TxIdle /\ DispIdle /\ LibIdle /\ ConcIdle /\ ProcIdle
    /\ SelIdle /\ EqIdle

StoreNext ==
    \/ \E k \in SetKeys, v \in SetValues : DataSet(k, v)
    \/ \E k \in OpKeys : DataGet(k)
    \/ \E k \in OpKeys : DataDelete(k)
    \/ \E k \in OpKeys : DataHas(k)
    \/ DataKeysLock
    \/ \E p \in Patterns : DataKeys(p)
    \/ DataClearLock
    \/ DataClear
    \/ DataCommitLock
    \/ DataCommit
    \/ DataCommitClear
    \/ \E k \in OpKeys : ReadBlocks(k)

SpecStore == StoreInit /\ [][StoreNext]_vars

(***************************************************************************)
(* Egress gateway and ledger queries                                       *)
(***************************************************************************)
\* ALLOWED_DOMAINS, in source order
ALLOWED_DOMAINS ==
    <<
       \* pokeapi.co
       <<"p", "o", "k", "e", "a", "p", "i", ".", "c", "o">>,
       \* tana.dev
       <<"t", "a", "n", "a", ".", "d", "e", "v">>,
       \* api.tana.dev
       <<"a", "p", "i", ".", "t", "a", "n", "a", ".", "d", "e", "v">>,
       \* blockchain.tana.dev
       <<"b", "l", "o", "c", "k", "c", "h", "a", "i", "n", ".", "t", "a", "n", "a", ".", "d", "e", "v">>,
       \* localhost
       <<"l", "o", "c", "a", "l", "h", "o", "s", "t">>,
       \* 127.0.0.1
       <<"1", "2", "7", ".", "0", ".", "0", ".", "1">>
    >>

\* hostnames the guest asks for
H_EVIL == <<"e", "v", "i", "l", ".", "e", "x", "a", "m", "p", "l", "e", ".", "c", "o", "m">>  \* evil.example.com
H_API == <<"a", "p", "i", ".", "t", "a", "n", "a", ".", "d", "e", "v">>  \* api.tana.dev
H_SUB == <<"s", "u", "b", ".", "t", "a", "n", "a", ".", "d", "e", "v">>  \* sub.tana.dev
H_NOT == <<"n", "o", "t", "t", "a", "n", "a", ".", "d", "e", "v">>  \* nottana.dev
H_TAIL == <<"t", "a", "n", "a", ".", "d", "e", "v", ".", "e", "v", "i", "l", ".", "c", "o", "m">>  \* tana.dev.evil.com
H_TANA == <<"t", "a", "n", "a", ".", "d", "e", "v">>  \* tana.dev
H_LOCAL == <<"l", "o", "c", "a", "l", "h", "o", "s", "t">>  \* localhost
H_LEDGER == <<"l", "e", "d", "g", "e", "r">>  \* ledger

Hosts == {H_EVIL, H_API, H_SUB, H_NOT, H_TAIL, H_TANA, H_LOCAL}

\* a URL as reqwest::Url::parse sees it: unparsable, or parsed with an
\* optional hostname (host_str)
BadUrl == [valid |-> FALSE, host |-> None]
NoHostUrl == [valid |-> TRUE, host |-> None]
Url(h) == [valid |-> TRUE, host |-> Some(h)]
Urls == {BadUrl, NoHostUrl} \cup {Url(h) : h \in Hosts}

\* what the transport does with a request that is sent
Outcomes == {"ok", "send_error", "body_error"}

\* variant of IsAllowed whose suffix test leaves out the separating dot
IsAllowedNoDot(hostname) ==
    \E i \in 1..Len(ALLOWED_DOMAINS) :
        hostname = ALLOWED_DOMAINS[i] \/ EndsWith(hostname, ALLOWED_DOMAINS[i])

\* op_fetch: is_allowed
IsAllowed(hostname) ==
    \E i \in 1..Len(ALLOWED_DOMAINS) :
        \/ hostname = ALLOWED_DOMAINS[i]
        \/ EndsWith(hostname, <<".">> \o ALLOWED_DOMAINS[i])

\* [&str]::join
RECURSIVE Join(_, _)
Join(list, sep) ==
    IF list = <<>> THEN <<>>
    ELSE IF Len(list) = 1 THEN list[1]
    ELSE list[1] \o sep \o Join(Tail(list), sep)

\* a JsErrorBox: its class and the parts its message is formatted from
JsError(class, parts) == [ok |-> FALSE, class |-> class, msg |-> parts]
JsOk(value) == [ok |-> TRUE, class |-> "", msg |-> value]

\* op_fetch up to the request: the error it returns early, or Ok
FetchCheck(url) ==
    IF ~url.valid THEN JsError("TypeError", <<"Invalid URL: ">>)
    ELSE IF url.host = None THEN JsError("TypeError", <<"Invalid hostname">>)
    ELSE IF ~IsAllowed(url.host[1])
    THEN JsError("Error",
                 << "fetch blocked: domain \"", url.host[1],
                    "\" not in whitelist. Allowed domains: ",
                    Join(ALLOWED_DOMAINS, <<",", " ">>) >>)
    ELSE JsOk(<<>>)

\* the result of a request that was sent, by transport outcome
FetchResult(outcome) ==
    IF outcome = "send_error" THEN JsError("Error", <<"fetch failed: ">>)
    ELSE IF outcome = "body_error"
    THEN JsError("Error", <<"failed to read response body: ">>)
    ELSE JsOk(<<"body">>)

Request(by, host) == [by |-> by, host |-> host]

NoNetCall == [op |-> "none", arg |-> <<>>, res |-> JsOk(<<>>)]

\* the log of requests is kept to this many entries
MaxNet == 2

\* an async op in flight: the op and its argument
Pending(op, arg) == [op |-> op, arg |-> arg]

\* op_fetch up to its first await: the checks, and reqwest::get(&url) sends
\* the request; the op then yields to the event loop, where other ops run
OpFetch(url) ==
    /\ Len(net) < MaxNet
    /\ IF FetchCheck(url).ok
       THEN /\ net' = Append(net, Request("op_fetch", url.host[1]))
            /\ awaiting' = awaiting (+) SetToBag({Pending("fetch", url)})
            /\ fret' = fret
       ELSE /\ net' = net
            /\ awaiting' = awaiting
            /\ fret' = [op |-> "fetch", arg |-> url, res |-> FetchCheck(url)]
    /\ UNCHANGED <<ledgerHost, notNetVars>>

\* op_fetch from its awaits on: reqwest::get(..).await fails, or
\* response.text().await fails or gives the body; pending ops resolve in
\* any order
FetchReturn(call, outcome) ==
    /\ BagIn(call, awaiting)
    /\ call.op = "fetch"
    /\ fret' = [op |-> "fetch", arg |-> call.arg, res |-> FetchResult(outcome)]
    /\ awaiting' = awaiting (-) SetToBag({call})
    /\ UNCHANGED <<net, ledgerHost, notNetVars>>

\* MAX_BATCH_QUERY
MAX_BATCH_QUERY == 10

\* a JSON argument: a string, an array of strings and numbers, or a number
JStr(x) == [t |-> "string", s |-> x, a |-> <<>>]
JNum == [t |-> "number", s |-> "", a |-> <<>>]
JArr(elems) == [t |-> "array", s |-> "", a |-> elems]

\* n string ids "id"
Ids(n) == [i \in 1..n |-> JStr("id")]

IdInputs ==
    { JStr("alice"), JNum, JArr(<<JStr("alice")>>),
      JArr(<<JStr("bob"), JNum>>),
      JArr(Ids(MAX_BATCH_QUERY)), JArr(Ids(MAX_BATCH_QUERY + 1)) }

\* the ids a query keeps: the string itself, or the array's string elements
\* (filter_map over as_str); <<>> with ok FALSE for any other JSON value
RECURSIVE StringsOf(_)
StringsOf(elems) ==
    IF elems = <<>> THEN <<>>
    ELSE IF Head(elems).t = "string"
         THEN <<Head(elems).s>> \o StringsOf(Tail(elems))
         ELSE StringsOf(Tail(elems))

ParseIds(input) ==
    IF input.t = "string" THEN [ok |-> TRUE, ids |-> <<input.s>>]
    ELSE IF input.t = "array" THEN [ok |-> TRUE, ids |-> StringsOf(input.a)]
    ELSE [ok |-> FALSE, ids |-> <<>>]

\* the three ledger queries, their endpoint and the noun of their messages
Queries == {"op_block_get_balance", "op_block_get_user", "op_block_get_transaction"}

\* the records the mock ledger API serves: ids it knows
Known == {"alice", "id"}

\* the per-id result of a query: the balance amount (0 when missing), or the
\* record (null when missing)
Lookup(query, id) ==
    IF query = "op_block_get_balance"
    THEN IF id \in Known THEN 100 ELSE 0
    ELSE IF id \in Known THEN Some(id) ELSE None

\* a batch limit that already refuses MAX_BATCH_QUERY ids
QueryCheckAtLimit(query, input) ==
    IF ~ParseIds(input).ok THEN JsError("TypeError", <<"Invalid ids">>)
    ELSE IF Len(ParseIds(input).ids) >= MAX_BATCH_QUERY
    THEN JsError("Error", <<"Cannot query more than ", MAX_BATCH_QUERY>>)
    ELSE JsOk(<<>>)

\* a query up to the request: the error it returns early, or Ok
QueryCheck(query, input) ==
    IF ~ParseIds(input).ok THEN JsError("TypeError", <<"Invalid ids">>)
    ELSE IF Len(ParseIds(input).ids) > MAX_BATCH_QUERY
    THEN JsError("Error", <<"Cannot query more than ", MAX_BATCH_QUERY>>)
    ELSE JsOk(<<>>)

\* the result of a query whose request was sent: a single value for one id,
\* a sequence otherwise
QueryResult(query, input, outcome) ==
    LET ids == ParseIds(input).ids
        results == [i \in 1..Len(ids) |-> Lookup(query, ids[i])]
    IN  IF outcome = "send_error" THEN JsError("Error", <<"Failed to fetch: ">>)
        ELSE IF outcome = "body_error" THEN JsError("Error", <<"Failed to parse: ">>)
        ELSE IF Len(ids) = 1 THEN JsOk(<<"single", results[1]>>)
        ELSE JsOk(<<"array", results>>)

\* op_block_get_balance, op_block_get_user, op_block_get_transaction up to
\* the first await: the checks, and reqwest::get(&url) sends the request
OpBlockQuery(query, input) ==
    /\ Len(net) < MaxNet
    /\ IF QueryCheck(query, input).ok
       THEN /\ net' = Append(net, Request(query, ledgerHost))
            /\ awaiting' = awaiting (+) SetToBag({Pending(query, input)})
            /\ fret' = fret
       ELSE /\ net' = net
            /\ awaiting' = awaiting
            /\ fret' = [op |-> query, arg |-> input, res |-> QueryCheck(query, input)]
    /\ UNCHANGED <<ledgerHost, notNetVars>>

\* the same ops from their awaits on: reqwest::get(..).await fails, or
\* response.json().await fails or gives the records
QueryReturn(call, outcome) ==
    /\ BagIn(call, awaiting)
    /\ call.op \in Queries
    /\ fret' = [op |-> call.op, arg |-> call.arg,
                res |-> QueryResult(call.op, call.arg, outcome)]
    /\ awaiting' = awaiting (-) SetToBag({call})
    /\ UNCHANGED <<net, ledgerHost, notNetVars>>

NetInit ==
    /\ net = <<>>
    /\ fret = NoNetCall
    /\ awaiting = EmptyBag
    /\ ledgerHost \in {H_LOCAL, H_LEDGER}
    /\ StoreIdle /\ BootIdle /\ TxIdle /\ DispIdle /\ LibIdle /\ ConcIdle /\ ProcIdle
    /\ SelIdle /\ EqIdle

NetNext ==
    \/ \E u \in Urls : OpFetch(u)
    \/ \E c \in BagToSet(awaiting), o \in Outcomes : FetchReturn(c, o)
    \/ \E q \in Queries, a \in IdInputs : OpBlockQuery(q, a)
    \/ \E c \in BagToSet(awaiting), o \in Outcomes : QueryReturn(c, o)

SpecNet == NetInit /\ [][NetNext]_vars

(***************************************************************************)
(* Isolate bootstrap (run_contract)                                        *)
(***************************************************************************)
\* the ops registered in the extension tana_ext
RegisteredOps ==
    { "op_sum", "op_print_stderr", "op_fetch",
      "op_data_set", "op_data_get", "op_data_delete", "op_data_has",
      "op_data_keys", "op_data_clear", "op_data_commit",
      "op_block_get_height", "op_block_get_timestamp", "op_block_get_hash",
      "op_block_get_previous_hash", "op_block_get_executor",
      "op_block_get_contract_id", "op_block_get_gas_limit",
      "op_block_get_gas_used", "op_block_get_balance", "op_block_get_user",
      "op_block_get_transaction",
      "op_tx_transfer", "op_tx_set_balance", "op_tx_get_changes", "op_tx_execute" }

\* what the engine core object gives whoever holds it: itself, its own print
\* function, and through its ops table every registered op
CoreObject == {"core", "core.print"} \cup RegisteredOps

\* what the tana module wrappers call: console.log calls the core's print,
\* console.error op_print_stderr, and the block, tx, utils and data wrappers
\* one op each; no wrapper calls op_sum
WrappedCaps ==
    { "core.print", "op_print_stderr", "op_fetch",
      "op_data_set", "op_data_get", "op_data_delete", "op_data_has",
      "op_data_keys", "op_data_clear", "op_data_commit",
      "op_block_get_height", "op_block_get_timestamp", "op_block_get_hash",
      "op_block_get_previous_hash", "op_block_get_executor",
      "op_block_get_contract_id", "op_block_get_gas_limit",
      "op_block_get_gas_used", "op_block_get_balance", "op_block_get_user",
      "op_block_get_transaction",
      "op_tx_transfer", "op_tx_set_balance", "op_tx_get_changes", "op_tx_execute" }

\* what a name bound on the global scope gives the code that reads it
Exposes(name) ==
    IF name \in {"Deno", "__tanaCore"} THEN CoreObject
    ELSE IF name \in {"__tanaImport", "tanaModules"} THEN WrappedCaps
    ELSE {}

\* everything code evaluated in invocation i's global scope can reach
Reach(i) == UNION {Exposes(g) : g \in globals[i]}

\* the number of invocations
NumInv == 2

Inv == 1..NumInv

\* the bootstrap script (bootstrap_globals and simple_bootstrap alike): stash
\* Deno.core in globalThis.__tanaCore, delete globalThis.Deno, declare
\* tanaModules, define globalThis.__tanaImport
BootstrapGlobals(g) ==
    ((g \cup {"__tanaCore"}) \ {"Deno"}) \cup {"tanaModules", "__tanaImport"}

\* run_contract: JsRuntime::new with the extension
CreateIsolate(i, pre) ==
    /\ pc[i] = "idle"
    /\ pc' = [pc EXCEPT ![i] = "created"]
    /\ globals' = [globals EXCEPT ![i] = {"Deno"}]
    /\ precomp' = [precomp EXCEPT ![i] = pre]
    /\ UNCHANGED notBootVars

\* run_contract: load typescript.js when the contract is not pre-compiled; the
\* file may be missing or fail to evaluate
LoadCompiler(i, ok) ==
    /\ pc[i] = "created"
    /\ ~precomp[i]
    /\ IF ok
       THEN /\ pc' = [pc EXCEPT ![i] = "compiler_loaded"]
            /\ globals' = [globals EXCEPT ![i] = @ \cup {"ts"}]
       ELSE /\ pc' = [pc EXCEPT ![i] = "failed"]
            /\ globals' = globals
    /\ UNCHANGED <<precomp, notBootVars>>

\* run_contract: execute the bootstrap script; it may fail
Bootstrap(i, ok) ==
    /\ \/ pc[i] = "created" /\ precomp[i]
       \/ pc[i] = "compiler_loaded"
    /\ IF ok
       THEN /\ pc' = [pc EXCEPT ![i] = "bootstrapped"]
            /\ globals' = [globals EXCEPT ![i] = BootstrapGlobals(@)]
       ELSE /\ pc' = [pc EXCEPT ![i] = "failed"]
            /\ globals' = globals
    /\ UNCHANGED <<precomp, notBootVars>>

\* run_contract: execute the runner script, which evaluates the contract source
\* in the global scope
RunContract(i, ok) ==
    /\ pc[i] = "bootstrapped"
    /\ pc' = [pc EXCEPT ![i] = IF ok THEN "running" ELSE "failed"]
    /\ UNCHANGED <<globals, precomp, notBootVars>>

BootInit ==
    /\ pc = [i \in Inv |-> "idle"]
    /\ globals = [i \in Inv |-> {}]
    /\ precomp = [i \in Inv |-> FALSE]
    /\ StoreIdle /\ NetIdle /\ TxIdle /\ DispIdle /\ LibIdle /\ ConcIdle /\ ProcIdle
    /\ SelIdle /\ EqIdle

BootNext ==
    \/ \E i \in Inv, pre \in BOOLEAN : CreateIsolate(i, pre)
    \/ \E i \in Inv, ok \in BOOLEAN : LoadCompiler(i, ok)
    \/ \E i \in Inv, ok \in BOOLEAN : Bootstrap(i, ok)
    \/ \E i \in Inv, ok \in BOOLEAN : RunContract(i, ok)

SpecBoot == BootInit /\ [][BootNext]_vars

(***************************************************************************)
(* Sandbox and egress: properties                                          *)
(***************************************************************************)
\* C1 (as claimed): once the bootstrap has run and before guest code runs, the
\* guest scope reaches neither the engine core object nor anything but the
\* capabilities the tana module wrappers expose.
C1_GuestReachesOnlyWrappers ==
    \A i \in Inv :
        pc[i] = "bootstrapped" =>
            /\ "Deno" \notin globals[i]
            /\ "core" \notin Reach(i)
            /\ Reach(i) = WrappedCaps

\* C2 (as claimed): every outbound request is issued by fetch for a hostname
\* that passed the allowlist check.
C2_OnlyCheckedFetchRequests ==
    \A n \in 1..Len(net) :
        net[n].by = "op_fetch" /\ IsAllowed(net[n].host)

\* hostname h is the entry d, or ends with d right after a dot
MatchesEntry(h, d) ==
    \/ h = d
    \/ \E n \in 1..Len(h) : h[n] = "." /\ SubSeq(h, n + 1, Len(h)) = d

\* sequence part occurs in sequence whole
Contains(whole, part) ==
    \E n \in 0..(Len(whole) - Len(part)) :
        SubSeq(whole, n + 1, n + Len(part)) = part

\* C3: fetch sends the request iff the URL's hostname is an allowlist entry or
\* ends with "." followed by one; otherwise it fails without a request, with an
\* error naming the hostname and enumerating the allowlist.
C3_FetchAllowlist ==
    [][\A u \in Urls :
         (u.host # None /\ OpFetch(u)) =>
           LET h == u.host[1]
               listed == \E n \in 1..Len(ALLOWED_DOMAINS) :
                            MatchesEntry(h, ALLOWED_DOMAINS[n])
           IN  /\ IF listed
                  THEN net' = Append(net, Request("op_fetch", h))
                  ELSE /\ net' = net
                       /\ fret'.op = "fetch" /\ fret'.arg = u
                       /\ ~fret'.res.ok
                       /\ fret'.res.msg[2] = h
                       /\ \A n \in 1..Len(ALLOWED_DOMAINS) :
                            Contains(fret'.res.msg[4], ALLOWED_DOMAINS[n])
               /\ h \in {H_API, H_SUB, H_TANA, H_LOCAL} => net' # net
               /\ h \in {H_EVIL, H_NOT, H_TAIL} => net' = net]_vars

\* C3 witness: after a fetch of sub.tana.dev was sent, a fetch of nottana.dev
\* was blocked without a request
C3_Witness ==
    /\ fret.op = "fetch" /\ fret.arg = Url(H_NOT)
    /\ ~fret.res.ok
    /\ net = <<Request("op_fetch", H_SUB)>>

(***************************************************************************)
(* Staged store: properties                                                *)
(***************************************************************************)
\* size in bytes of a map: the sum of key+value lengths over its keys
MapSize(m) == SumSizes(m, DOMAIN m)

\* C4: staging shadows committed storage on every read.  Right after a
\* successful set(k, v), get(k) is v and has(k) is true whatever storage holds
\* for k; right after delete(k), has(k) is false and get(k) is empty.  (get, has
\* and keys change neither layer, so this lasts until the next write; a
\* clear writes to storage before it returns.)
C4_Shadowing ==
    /\ (last.op = "set" /\ last.res.ok)
          => (GetValue(last.key) = Some(last.val) /\ HasKey(last.key))
    /\ (last.op = "delete")
          => (~HasKey(last.key) /\ GetValue(last.key) = None)
    /\ (last.op = "get" /\ ~HeldBy("clear", "locked"))
          => last.out = GetValue(last.key)
    /\ (last.op = "has" /\ ~HeldBy("clear", "locked"))
          => last.out = HasKey(last.key)

\* C4 witness: a set has staged a value over a different committed value
C4_Witness ==
    /\ last.op = "set" /\ last.res.ok
    /\ last.key \in DOMAIN storage
    /\ storage[last.key] # last.val

\* C5: committed storage never holds more than MAX_KEYS keys nor more than
\* MAX_TOTAL_SIZE bytes.
C5_StorageWithinLimits ==
    /\ Cardinality(DOMAIN storage) <= MAX_KEYS
    /\ MapSize(storage) <= MAX_TOTAL_SIZE

\* C5 witness: a commit has added an entry and filled storage to the byte limit
C5_Witness ==
    /\ last.op = "commit" /\ last.res.ok
    /\ KB \in DOMAIN storage
    /\ MapSize(storage) = MAX_TOTAL_SIZE

\* C6 (as claimed): commit rejects exactly when the merged post-commit state,
\* each live key counted once, exceeds a limit.
C6_RejectsIffMergedExceeds ==
    [][(HeldBy("commit", "locked") /\ DataCommit) =>
         (InGap' <=>
            /\ MapSize(CommitApply(storage, staging)) <= MAX_TOTAL_SIZE
            /\ Cardinality(DOMAIN CommitApply(storage, staging)) <= MAX_KEYS)]_vars

\* C7: a commit that fails on a limit mutates nothing: storage is not
\* written while the commit holds it and has not applied, and the step that
\* rejects leaves both layers as they are.
C7_Step ==
    /\ (HeldBy("commit", "locked") /\ ~InGap') => storage' = storage
    /\ (last'.op = "commit" /\ ~last'.res.ok /\ DataCommit)
          => (storage' = storage /\ staging' = staging)
C7_FailedCommitMutatesNothing == [][C7_Step]_vars

\* C7 witness: a commit was rejected on the byte limit with entries staged
C7_Witness ==
    /\ last.op = "commit" /\ ~last.res.ok
    /\ last.res.kind = "Storage limit exceeded"
    /\ storage = BytesNear
    /\ staging # EmptyMap

\* C8: a successful commit leaves storage as the storage the call found
\* with every staged write applied and every staged delete removed, and
\* when it returns staging is empty and storage is as the commit left it.
C8_Step ==
    /\ (HeldBy("commit", "locked") /\ InGap' /\ DataCommit)
         => \A k \in DOMAIN storage \cup DOMAIN staging \cup DOMAIN storage' :
               IF k \in DOMAIN staging
               THEN IF staging[k] = None
                    THEN k \notin DOMAIN storage'
                    ELSE k \in DOMAIN storage' /\ storage'[k] = staging[k][1]
               ELSE k \in DOMAIN storage' /\ k \in DOMAIN storage
                      /\ storage'[k] = storage[k]
    /\ InGap => storage' = storage
    /\ (InGap /\ last'.op = "commit" /\ last'.res.ok /\ DataCommitClear)
         => staging' = EmptyMap
C8_CommitAppliesStaging == [][C8_Step]_vars

\* C8 witness: a commit has removed a committed key and added a new one
C8_Witness ==
    /\ last.op = "commit" /\ last.res.ok
    /\ NumKey(2) \in DOMAIN storage
    /\ KA \notin DOMAIN storage
    /\ KB \in DOMAIN storage

\* C9: a commit that directly follows a commit, with no store call returning
\* between the two, changes neither layer nor any read result, in none of
\* its steps.
C9_CommitIdempotent ==
    [][(last.op = "commit" /\ holding' # holding
          /\ (DataCommitLock \/ DataCommit \/ DataCommitClear)) =>
         /\ storage' = storage
         /\ staging' = staging
         /\ AllKeys' = AllKeys
         /\ \A k \in OpKeys :
              GetValue(k)' = GetValue(k) /\ HasKey(k)' = HasKey(k)]_vars

\* C9 witness: a second commit in a row has run after a first that wrote
C9_Witness ==
    /\ last.op = "commit" /\ last.again /\ last.res.ok
    /\ KB \in DOMAIN storage

\* C10: set with a key over MAX_KEY_SIZE bytes or a value over MAX_VALUE_SIZE
\* bytes fails and changes nothing; at exactly the limits it is staged.
C10_SetSizeEnforced ==
    [][\A k \in SetKeys, v \in SetValues :
         (last'.op = "set" /\ last'.key = k /\ last'.val = v /\ DataSet(k, v)) =>
           IF Len(k) > MAX_KEY_SIZE \/ v.len > MAX_VALUE_SIZE
           THEN /\ ~last'.res.ok
                /\ storage' = storage /\ staging' = staging
                /\ AllKeys' = AllKeys
                /\ GetValue(k)' = GetValue(k)
           ELSE /\ last'.res.ok
                /\ k \in DOMAIN staging' /\ staging'[k] = Some(v)
                /\ GetValue(k)' = Some(v)]_vars

\* C10 witness: a value one byte too long was rejected for a key that stays absent
C10_Witness ==
    /\ last.op = "set" /\ ~last.res.ok
    /\ last.key = KB /\ last.val = VOver
    /\ KB \notin AllKeys

(***************************************************************************)
(* Transaction ledger (the op_tx ops)                                      *)
(***************************************************************************)
MOCK_GAS_LIMIT == 1000000

\* the gas charged for one pending change (op_tx_execute: 100 * changes.len())
GasPerChange == 100

\* An f64 amount: a finite number n, or NaN.
Fin(n) == [fin |-> TRUE, n |-> n]
NaN == [fin |-> FALSE, n |-> 0]

\* the f64 comparisons amount <= 0.0 and amount < 0.0: false for NaN
LeZero(a) == a.fin /\ a.n <= 0
LtZero(a) == a.fin /\ a.n < 0

\* serde_json::json! of an f64: a JSON number, or null when it is not finite
JsonF64(a) == IF a.fin THEN [t |-> "number", n |-> a.n] ELSE [t |-> "null", n |-> 0]

TransferCheck(from, to, amount) ==
    IF from = to THEN JsError("Error", <<"Cannot transfer to self">>)
    ELSE IF LeZero(amount) THEN JsError("Error", <<"Amount must be positive">>)
    ELSE JsOk(<<>>)

SetBalanceCheck(amount) ==
    IF LtZero(amount) THEN JsError("Error", <<"Balance cannot be negative">>)
    ELSE JsOk(<<>>)

TransferChange(from, to, amount, currency) ==
    [type |-> "transfer", from |-> from, to |-> to,
     amount |-> JsonF64(amount), currency |-> currency]

BalanceChange(user_id, amount, currency) ==
    [type |-> "balance_update", userId |-> user_id,
     amount |-> JsonF64(amount), currency |-> currency]

TxCall(op, res) == [op |-> op, res |-> res]
NoTxCall == TxCall("none", JsOk(<<>>))

\* the inputs: two users, one currency, amounts on both sides of zero and NaN
Users == {"alice", "bob"}
Currencies == {"USD"}
Amounts == {Fin(0 - 1), Fin(0), Fin(1), NaN}

\* the longest pending queue the model builds
MaxPending == 3

\* the cumulative counter starts this many changes below the limit, a value
\* earlier successful executes reach from 0
GasHeadroom == 4

\* op_tx_transfer
TxTransfer(from, to, amount, currency) ==
    LET res == TransferCheck(from, to, amount)
    IN  /\ res.ok => Len(txChanges) < MaxPending
        /\ txChanges' = IF res.ok
                        THEN Append(txChanges, TransferChange(from, to, amount, currency))
                        ELSE txChanges
        /\ txRet' = TxCall("transfer", res)
        /\ UNCHANGED <<gasUsed, notTxVars>>

\* op_tx_set_balance
TxSetBalance(user_id, amount, currency) ==
    LET res == SetBalanceCheck(amount)
    IN  /\ res.ok => Len(txChanges) < MaxPending
        /\ txChanges' = IF res.ok
                        THEN Append(txChanges, BalanceChange(user_id, amount, currency))
                        ELSE txChanges
        /\ txRet' = TxCall("setBalance", res)
        /\ UNCHANGED <<gasUsed, notTxVars>>

\* a getChanges that hands the pending queue over and leaves it empty
TxGetChangesDrain ==
    /\ txRet' = TxCall("getChanges", JsOk(txChanges))
    /\ txChanges' = <<>>
    /\ UNCHANGED <<gasUsed, notTxVars>>

\* op_tx_get_changes
TxGetChanges ==
    /\ txRet' = TxCall("getChanges", JsOk(txChanges))
    /\ UNCHANGED <<txChanges, gasUsed, notTxVars>>

\* op_tx_execute: what it returns
ExecuteRollback ==
    [success |-> FALSE, changes |-> <<>>, gasUsed |-> MOCK_GAS_LIMIT, error |-> Some("Out of gas")]
\* a success result that reports the cumulative counter instead of the batch's cost
ExecuteSuccessCumulative(changes, gas_used) ==
    [success |-> TRUE, changes |-> changes, gasUsed |-> gasUsed + gas_used, error |-> None]
ExecuteSuccess(changes, gas_used) ==
    [success |-> TRUE, changes |-> changes, gasUsed |-> gas_used, error |-> None]

\* op_tx_execute with the gas counter updated before the limit is checked
TxExecuteChargeFirst ==
    LET gas_used == GasPerChange * Len(txChanges)
        new_gas_total == gasUsed + gas_used
    IN  /\ gasUsed' = new_gas_total
        /\ txChanges' = <<>>
        /\ txRet' = TxCall("execute",
                        JsOk(IF new_gas_total > MOCK_GAS_LIMIT
                             THEN ExecuteRollback
                             ELSE ExecuteSuccess(txChanges, gas_used)))
        /\ UNCHANGED notTxVars

\* op_tx_execute whose rollback branch keeps the pending queue
TxExecuteKeepOnRollback ==
    LET gas_used == GasPerChange * Len(txChanges)
        new_gas_total == gasUsed + gas_used
    IN  /\ IF new_gas_total > MOCK_GAS_LIMIT
           THEN /\ UNCHANGED <<txChanges, gasUsed>>
                /\ txRet' = TxCall("execute", JsOk(ExecuteRollback))
           ELSE /\ gasUsed' = new_gas_total
                /\ txChanges' = <<>>
                /\ txRet' = TxCall("execute", JsOk(ExecuteSuccess(txChanges, gas_used)))
        /\ UNCHANGED notTxVars

\* op_tx_execute that charges one GasPerChange per call on top of the batch
TxExecuteBaseCost ==
    LET gas_used == GasPerChange * (Len(txChanges) + 1)
        new_gas_total == gasUsed + gas_used
    IN  /\ IF new_gas_total > MOCK_GAS_LIMIT
           THEN /\ txChanges' = <<>>
                /\ gasUsed' = gasUsed
                /\ txRet' = TxCall("execute", JsOk(ExecuteRollback))
           ELSE /\ gasUsed' = new_gas_total
                /\ txChanges' = <<>>
                /\ txRet' = TxCall("execute", JsOk(ExecuteSuccess(txChanges, gas_used)))
        /\ UNCHANGED notTxVars

\* op_tx_execute
TxExecute ==
    LET gas_used == GasPerChange * Len(txChanges)
        new_gas_total == gasUsed + gas_used
    IN  /\ IF new_gas_total > MOCK_GAS_LIMIT
           THEN /\ txChanges' = <<>>
                /\ gasUsed' = gasUsed
                /\ txRet' = TxCall("execute", JsOk(ExecuteRollback))
           ELSE /\ gasUsed' = new_gas_total
                /\ txChanges' = <<>>
                /\ txRet' = TxCall("execute", JsOk(ExecuteSuccess(txChanges, gas_used)))
        /\ UNCHANGED notTxVars

TxInit ==
    /\ txChanges = <<>>
    /\ gasUsed = MOCK_GAS_LIMIT - GasPerChange * GasHeadroom
    /\ txRet = NoTxCall
    /\ StoreIdle /\ NetIdle /\ BootIdle /\ DispIdle /\ LibIdle /\ ConcIdle /\ ProcIdle
    /\ SelIdle /\ EqIdle

TxNext ==
    \/ \E f \in Users, t \in Users, a \in Amounts, c \in Currencies : TxTransfer(f, t, a, c)
    \/ \E u \in Users, a \in Amounts, c \in Currencies : TxSetBalance(u, a, c)
    \/ TxGetChanges
    \/ TxExecute

SpecTx == TxInit /\ [][TxNext]_vars

(***************************************************************************)
(* Transaction ledger: properties                                          *)
(***************************************************************************)
\* the cost op_tx_execute computes for the pending queue
PendingCost == GasPerChange * Len(txChanges)

\* C11: in every reachable state the cumulative gas counter is at most the gas
\* limit, whatever transfer / setBalance / execute calls were made.
C11_GasWithinLimit == gasUsed <= MOCK_GAS_LIMIT

\* C11 witness: a successful execute has brought the counter exactly to the limit
C11_Witness ==
    /\ txRet.op = "execute"
    /\ txRet.res.msg.success
    /\ Len(txRet.res.msg.changes) > 0
    /\ gasUsed = MOCK_GAS_LIMIT

\* C12: an execute whose cost would take the counter over the limit returns
\* success=false, changes=[], gasUsed=limit, error="Out of gas", leaves the
\* counter unchanged and empties the queue; a getChanges that follows returns
\* the empty sequence.
C12_GasRollback ==
    /\ [][(txRet'.op = "execute" /\ gasUsed + PendingCost > MOCK_GAS_LIMIT /\ TxExecute)
            => /\ txRet'.res.ok
               /\ txRet'.res.msg.success = FALSE
               /\ txRet'.res.msg.changes = <<>>
               /\ txRet'.res.msg.gasUsed = MOCK_GAS_LIMIT
               /\ txRet'.res.msg.error = Some("Out of gas")
               /\ gasUsed' = gasUsed
               /\ txChanges' = <<>>]_vars
    /\ [][(txRet.op = "execute" /\ ~txRet.res.msg.success /\ txRet'.op = "getChanges"
             /\ TxGetChanges)
            => txRet'.res = JsOk(<<>>)]_vars

\* C12 witness: the counter is within 100 of the limit and an execute of a
\* queue of two or more changes has been rolled back
C12_Witness ==
    /\ txRet.op = "execute"
    /\ ~txRet.res.msg.success
    /\ gasUsed = MOCK_GAS_LIMIT - GasPerChange
    /\ txChanges = <<>>

\* C13: an execute whose cost fits returns success=true with all pending
\* changes in staging order and gasUsed = 100 * n, adds exactly 100 * n to the
\* counter and empties the queue.
C13_ExecuteSuccess ==
    [][(txRet'.op = "execute" /\ gasUsed + PendingCost <= MOCK_GAS_LIMIT /\ TxExecute)
         => /\ txRet'.res.ok
            /\ txRet'.res.msg.success = TRUE
            /\ txRet'.res.msg.changes = txChanges
            /\ txRet'.res.msg.gasUsed = GasPerChange * Len(txChanges)
            /\ txRet'.res.msg.error = None
            /\ gasUsed' = gasUsed + GasPerChange * Len(txChanges)
            /\ txChanges' = <<>>]_vars

\* C13 witness: a successful execute of a transfer followed by a balance
\* update, with gas already used before it
C13_Witness ==
    /\ txRet.op = "execute"
    /\ txRet.res.msg.success
    /\ Len(txRet.res.msg.changes) = 2
    /\ txRet.res.msg.changes[1].type = "transfer"
    /\ txRet.res.msg.changes[2].type = "balance_update"
    /\ gasUsed > MOCK_GAS_LIMIT - GasPerChange * GasHeadroom + txRet.res.msg.gasUsed
    /\ txChanges = <<>>

\* a queued amount carries the f64 argument when it is that number
Carries(j, a) == a.fin /\ j.t = "number" /\ j.n = a.n

\* the queue grew by exactly one entry at its end
AppendedOne == Len(txChanges') = Len(txChanges) + 1
               /\ SubSeq(txChanges', 1, Len(txChanges)) = txChanges

\* C14 (as claimed): transfer fails when from = to or amount <= 0, setBalance
\* fails when amount < 0; a failed call leaves the queue and the gas counter
\* unchanged; a successful call appends exactly one change of its type carrying
\* the call's arguments, earlier entries unaltered.
C14_StageValidates ==
    /\ [][\A f \in Users, t \in Users, a \in Amounts, c \in Currencies :
            (txRet'.op = "transfer" /\ TxTransfer(f, t, a, c))
            => /\ (f = t \/ LeZero(a)) => ~txRet'.res.ok
               /\ ~txRet'.res.ok => (txChanges' = txChanges /\ gasUsed' = gasUsed)
               /\ txRet'.res.ok =>
                    /\ AppendedOne
                    /\ LET e == txChanges'[Len(txChanges')]
                       IN  /\ e.type = "transfer"
                           /\ e.from = f /\ e.to = t /\ e.currency = c
                           /\ Carries(e.amount, a)]_vars
    /\ [][\A u \in Users, a \in Amounts, c \in Currencies :
            (txRet'.op = "setBalance" /\ TxSetBalance(u, a, c))
            => /\ LtZero(a) => ~txRet'.res.ok
               /\ ~txRet'.res.ok => (txChanges' = txChanges /\ gasUsed' = gasUsed)
               /\ txRet'.res.ok =>
                    /\ AppendedOne
                    /\ LET e == txChanges'[Len(txChanges')]
                       IN  /\ e.type = "balance_update"
                           /\ e.userId = u /\ e.currency = c
                           /\ Carries(e.amount, a)]_vars

(***************************************************************************)
(* Dispatch: the edge server's handle_get / handle_post ->                 *)
(* execute_contract_with_body -> run_contract, one invocation after        *)
(* another, and the CLI runtime's main.                                    *)
(* A JSON result is [status, body]: status an Option of a number, body the *)
(* key/value pairs of the body object.                                     *)
(***************************************************************************)
ErrorBody(msg) == <<"error", msg>>
ErrorResponse(msg) == [status |-> Some(500), body |-> ErrorBody(msg)]

\* what a contract's entry point can return: a plain object (with or without
\* a numeric status), undefined, a function, a BigInt
JsObject(status) == [kind |-> "object", status |-> status, body |-> <<"ok", "true">>]
JsUndefined == [kind |-> "undefined", status |-> None, body |-> <<>>]
JsFunction == [kind |-> "function", status |-> None, body |-> <<>>]
JsBigInt == [kind |-> "bigint", status |-> None, body |-> <<>>]

\* the runner's fallback branch and the get-result script's default
NoEntryResult ==
    [kind |-> "object", status |-> Some(500),
     body |-> ErrorBody("No Get or Post function exported")]
NoResultReturned ==
    [kind |-> "object", status |-> Some(500), body |-> ErrorBody("No result returned")]

\* the runner's dispatch under an unconditional call of Get
EntryAlwaysGet(exports) == "Get"

\* the runner's dispatch: typeof Get === 'function', else typeof Post ===
\* 'function', else the fallback; the request's method plays no part
Entry(exports) ==
    IF "Get" \in exports THEN "Get"
    ELSE IF "Post" \in exports THEN "Post"
    ELSE "none"

\* handle_get / handle_post: the HTTP status of a result: its "status" as u64,
\* cast to u16, when StatusCode::from_u16 accepts it, and 200 OK otherwise
HttpStatus(r) ==
    IF r.status # None /\ r.status[1] >= 0
          /\ (r.status[1] % 65536) >= 100 /\ (r.status[1] % 65536) < 1000
    THEN r.status[1] % 65536
    ELSE 200

\* execute_contract_with_body: js_path.exists(), else ts_path.exists()
Files == {"none", "js", "ts", "both"}
Precompiled(file) == file \in {"js", "both"}

Methods == {"get", "post"}
Behaviours == {"returns", "throws", "hangs", "eval_throws"}
\* a status beyond the 16-bit range whose low 16 bits are 404
WideStatus == 65536 + 404
Returned == {JsObject(Some(200)), JsObject(Some(404)), JsObject(Some(WideStatus)),
             JsObject(None), JsUndefined, JsFunction, JsBigInt}
Sources == [exports : SUBSET {"Get", "Post"}, behaviour : Behaviours, value : Returned]
NoSource == [exports |-> {}, behaviour |-> "", value |-> JsUndefined]
NoRequest == [method |-> "", file |-> "", src |-> NoSource]

\* an Err(String) out of execute_contract_with_body, mapped by the handler
Fail(msg) ==
    /\ fatal' = Some(msg)
    /\ response' = Some(ErrorResponse(msg))
    /\ dpc' = "responded"

\* handle_get / handle_post up to run_contract: locate and read the contract
\* file of the request's method
HandleRequest(method, file, readOk, src) ==
    /\ program = "edge"
    /\ dpc = "idle"
    /\ called' = "none"
    /\ cres' = None
    /\ drained' = FALSE
    /\ IF file = "none"
       THEN /\ Fail("Contract not found: ")
            /\ dreq' = [method |-> method, file |-> file, src |-> NoSource]
       ELSE IF ~readOk
       THEN /\ Fail("Failed to read contract: ")
            /\ dreq' = [method |-> method, file |-> file, src |-> NoSource]
       ELSE /\ fatal' = None
            /\ response' = None
            /\ dpc' = "loaded"
            /\ dreq' = [method |-> method, file |-> file, src |-> src]
    /\ UNCHANGED <<program, proc, notDispVars>>

SetupOutcomes ==
    {"ok", "Missing typescript.js: ", "Failed to load TypeScript: ",
     "Missing tana-globals.ts: ", "Failed to bootstrap: "}

\* run_contract up to the bootstrap: the isolate, the compiler (unless
\* pre-compiled), tana-globals.ts, the bootstrap script
SetupIsolate(outcome) ==
    /\ dpc = "loaded"
    /\ outcome \in {"Missing typescript.js: ", "Failed to load TypeScript: "}
         => ~Precompiled(dreq.file)
    /\ IF outcome = "ok"
       THEN dpc' = "bootstrapped" /\ UNCHANGED <<fatal, response>>
       ELSE Fail(outcome)
    /\ UNCHANGED <<program, proc, dreq, called, cres, drained, notDispVars>>

\* run_contract: execute the runner script: evaluate the source, pick the
\* entry point and call it; the fallback assigns __contractResult at once
RunRunner(ok) ==
    /\ dpc = "bootstrapped"
    /\ IF ~ok
       THEN Fail("Failed to execute contract: ") /\ UNCHANGED <<called, cres>>
       ELSE /\ dpc' = "running"
            /\ UNCHANGED <<fatal, response>>
            /\ IF dreq.src.behaviour = "eval_throws"
               THEN UNCHANGED <<called, cres>>
               ELSE /\ called' = Entry(dreq.src.exports)
                    /\ cres' = IF Entry(dreq.src.exports) = "none"
                               THEN Some(NoEntryResult)
                               ELSE None
    /\ UNCHANGED <<program, proc, dreq, drained, notDispVars>>

\* run_contract: run_event_loop to completion; a rejected runner promise is
\* an error, a resolved entry point's value is assigned to __contractResult
RunEventLoop ==
    /\ dpc = "running"
    /\ IF \/ dreq.src.behaviour = "eval_throws"
          \/ called # "none" /\ dreq.src.behaviour = "throws"
       THEN Fail("Event loop failed: ") /\ UNCHANGED <<cres, drained>>
       ELSE /\ dpc' = "drained"
            /\ drained' = TRUE
            /\ cres' = IF called # "none" /\ dreq.src.behaviour = "returns"
                       THEN Some(dreq.src.value)
                       ELSE cres
            /\ UNCHANGED <<fatal, response>>
    /\ UNCHANGED <<program, proc, dreq, called, notDispVars>>

\* __contractResult || { status: 500, body: { error: "No result returned" } }
ResultOrDefault(r) ==
    IF r = None \/ r[1].kind = "undefined" THEN NoResultReturned ELSE r[1]

\* the get-result step reading __contractResult
ReadResult ==
    LET v == ResultOrDefault(cres)
    IN  /\ IF v.kind = "bigint" THEN Fail("Failed to get result: ")
           ELSE IF v.kind = "function" THEN Fail("Failed to parse result: ")
           ELSE /\ response' = Some([status |-> v.status, body |-> v.body])
                /\ dpc' = "responded"
                /\ fatal' = fatal
        /\ UNCHANGED <<program, proc, dreq, called, cres, drained, notDispVars>>

\* a get-result that runs straight after the runner script
GetResultEarly == dpc = "running" /\ ReadResult

\* run_contract: the get-result script (JSON.stringify), parsed back into JSON
GetResult == dpc = "drained" /\ ReadResult

\* handle_get / handle_post: return (status_code, Json(response)); the
\* invocation's isolate and result are dropped
Respond ==
    /\ dpc = "responded"
    /\ dpc' = "idle"
    /\ dreq' = NoRequest
    /\ called' = "none"
    /\ cres' = None
    /\ drained' = FALSE
    /\ fatal' = None
    /\ response' = None
    /\ UNCHANGED <<program, proc, notDispVars>>

CliFailures ==
    {"none", "Contract not found", "missing typescript.js", "load ts",
     "missing tana-globals.ts", "bootstrap", "failed to read contract",
     "run user script", "event loop failed"}

\* the CLI runtime's main: every failure is a panic (panic!, expect)
CliMain(pre, failAt) ==
    /\ program = "cli"
    /\ proc = "running"
    /\ failAt \in {"missing typescript.js", "load ts", "missing tana-globals.ts"} => ~pre
    /\ proc' = IF failAt = "none" THEN "exited" ELSE "panicked"
    /\ fatal' = IF failAt = "none" THEN None ELSE Some(failAt)
    /\ dpc' = "exited"
    /\ drained' = (failAt = "none")
    /\ UNCHANGED <<program, dreq, called, cres, response, notDispVars>>

DispInit ==
    /\ program \in {"edge", "cli"}
    /\ proc = "running"
    /\ dpc = "idle"
    /\ dreq = NoRequest
    /\ called = "none"
    /\ cres = None
    /\ drained = FALSE
    /\ fatal = None
    /\ response = None
    /\ StoreIdle /\ NetIdle /\ BootIdle /\ TxIdle /\ LibIdle /\ ConcIdle /\ ProcIdle
    /\ SelIdle /\ EqIdle

DispNext ==
    \/ \E m \in Methods, f \in Files, r \in BOOLEAN, s \in Sources : HandleRequest(m, f, r, s)
    \/ \E o \in SetupOutcomes : SetupIsolate(o)
    \/ \E ok \in BOOLEAN : RunRunner(ok)
    \/ RunEventLoop
    \/ GetResult
    \/ Respond
    \/ \E pre \in BOOLEAN, f \in CliFailures : CliMain(pre, f)

SpecDispatch == DispInit /\ [][DispNext]_vars

(***************************************************************************)
(* Dispatch: properties                                                    *)
(***************************************************************************)
\* C15 (as claimed): the runner invokes the entry point matching the request's
\* method: a POST invocation calls Post and never Get, a GET invocation calls
\* Get and never Post; a contract without a Post export invoked via POST gets
\* {status:500, body:{error:"No Get or Post function exported"}}.
C15_EntryMatchesMethod ==
    /\ called = "Get" => dreq.method = "get"
    /\ called = "Post" => dreq.method = "post"
    /\ (dpc = "responded" /\ drained /\ fatal = None
          /\ dreq.method = "post" /\ "Post" \notin dreq.src.exports)
         => response = Some(ErrorResponse("No Get or Post function exported"))

\* the source in flight was loaded, defines neither Get nor Post, and its
\* evaluation does not throw
DefinesNoEntry ==
    /\ dreq.file # "none"
    /\ dreq.src.exports = {}
    /\ dreq.src.behaviour # "eval_throws"

\* C16: when the loaded source defines neither Get nor Post, the runner assigns
\* the fallback result, the event loop and the result extraction succeed, and
\* the invocation ends non-fatally with exactly {status:500,
\* body:{error:"No Get or Post function exported"}} and HTTP status 500.
C16_NoEntryPoint ==
    /\ (dpc \in {"running", "drained"} /\ DefinesNoEntry)
         => /\ fatal = None
            /\ called = "none"
            /\ cres = Some([kind |-> "object", status |-> Some(500),
                            body |-> <<"error", "No Get or Post function exported">>])
    /\ (dpc = "responded" /\ DefinesNoEntry /\ fatal # None)
         => fatal[1] \notin {"Event loop failed: ", "Failed to get result: ",
                             "Failed to parse result: "}
    /\ (dpc = "responded" /\ DefinesNoEntry /\ fatal = None)
         => /\ response = Some([status |-> Some(500),
                                body |-> <<"error", "No Get or Post function exported">>])
            /\ HttpStatus(response[1]) = 500

\* C16 witness: a POST invocation of a source without entry points has been
\* answered with the fallback result
C16_Witness ==
    /\ dpc = "responded"
    /\ DefinesNoEntry
    /\ dreq.method = "post"
    /\ drained
    /\ fatal = None
    /\ response = Some(ErrorResponse("No Get or Post function exported"))

\* C17 (as claimed): every fatal error during dispatch ends the invocation with
\* {status:500, body:{error: message}} and leaves the host process running.
C17_FatalIsStructured ==
    fatal # None => (proc = "running" /\ response = Some(ErrorResponse(fatal[1])))

\* C18: the result is read only after run_event_loop has completed, and what
\* is read for an entry point that returns is the value it resolved to.
C18_ExtractAfterDrain ==
    [][GetResult
         => /\ drained
            /\ (called # "none" /\ dreq.src.behaviour = "returns")
                 => cres = Some(dreq.src.value)]_vars

\* C18 witness: the result of an awaited Post has been extracted after the
\* drain and returned
C18_Witness ==
    /\ dpc = "responded"
    /\ drained
    /\ called = "Post"
    /\ dreq.src.behaviour = "returns"
    /\ fatal = None
    /\ response = Some([status |-> Some(200), body |-> <<"ok", "true">>])

\* C38 (as claimed): the HTTP status of a response is the result's status
\* when that is an integer in 100..999, is 500 for every dispatch error, and
\* is 200 when the status is absent or not a usable status; in particular a
\* status beyond 16 bits is answered with 200, never with its low 16 bits.
C38_StatusMapping ==
    (dpc = "responded" /\ response # None)
      => LET r == response[1]
         IN  /\ (r.status # None /\ r.status[1] \in 100..999)
                  => HttpStatus(r) = r.status[1]
             /\ fatal # None => HttpStatus(r) = 500
             /\ (r.status = None \/ r.status[1] \notin 100..999)
                  => HttpStatus(r) = 200

(***************************************************************************)
(* The embeddable runtime (src/runtime/src/lib.rs): one TanaRuntime holds  *)
(* one JsRuntime for all of its calls.  rtGlobals is the set of names      *)
(* bound in that isolate's global scope, by a property of the global       *)
(* object or by a top-level let / const of an executed script.             *)
(***************************************************************************)
RtOk(out) == [ok |-> TRUE, err |-> "", out |-> out]
RtErr(err) == [ok |-> FALSE, err |-> err, out |-> <<>>]
\* a call of the runtime: its name, its user code (execute) and its result
NoCode == [defs |-> {}, uses |-> {}, logs |-> FALSE, errs |-> FALSE]
RtCall(op, code, res) == [op |-> op, code |-> code, res |-> res]
NoRtCall == RtCall("new", NoCode, RtOk(<<>>))

\* the names the runner script of execute declares at its top level
RunnerDeclares == {"src", "out"}

\* the names the bootstrap script declares at its top level
BootstrapDeclares == {"tanaModules"}

\* user code: the global names it declares (var / function through the
\* indirect eval), the global names it reads, and whether it imports
\* tana:core and logs a line (console.log), writes one to stderr
\* (console.error)
UserNames == {"a", "b"}
Programs ==
    [defs : SUBSET UserNames, uses : SUBSET UserNames, logs : BOOLEAN, errs : BOOLEAN]

\* the result of execute: the stdout text alone, or both texts under
\* headings when stderr is not empty
Collect(stdout, stderr) ==
    IF stderr = <<>> THEN stdout
    ELSE <<"STDOUT:\n">> \o stdout \o <<"\n\nSTDERR:\n">> \o stderr

\* the error of a bootstrap without the compiler
NotLoadedMsg == "TypeScript compiler not loaded. Call load_typescript() first."

\* what the script given to load_typescript leaves in the global scope,
\* whether it completes or throws: nothing (it does not compile, or throws
\* in its first statement), ts bound to the compiler, or ts declared by a
\* hoisted var whose initialiser did not complete
Leaves == {"nothing", "ts bound", "ts declared"}

\* execute_script is not transactional: the scope after a script that left
\* ts behind
GlobalsAfterLoad(leaves) ==
    IF leaves = "nothing" THEN rtGlobals ELSE rtGlobals \cup {"ts"}
UndefAfterLoad(leaves) ==
    CASE leaves = "nothing" -> rtUndef
      [] leaves = "ts bound" -> rtUndef \ {"ts"}
      [] leaves = "ts declared" ->
           IF "ts" \in rtGlobals THEN rtUndef ELSE rtUndef \cup {"ts"}

\* load_typescript with typescript_loaded set before the `?` of execute_script
LoadTypescriptFlagFirst(ok, leaves) ==
    /\ rtGlobals' = GlobalsAfterLoad(leaves)
    /\ rtUndef' = UndefAfterLoad(leaves)
    /\ rtRet' = RtCall("load_typescript", NoCode,
                       IF ok THEN RtOk(<<>>) ELSE RtErr("Failed to load TypeScript"))
    /\ rtTs' = TRUE
    /\ UNCHANGED <<rtOut, rtErrs, notLibVars>>

\* TanaRuntime::load_typescript: run the script; typescript_loaded is set
\* only when it completed
LoadTypescript(ok, leaves) ==
    /\ rtGlobals' = GlobalsAfterLoad(leaves)
    /\ rtUndef' = UndefAfterLoad(leaves)
    /\ rtRet' = RtCall("load_typescript", NoCode,
                       IF ok THEN RtOk(<<>>) ELSE RtErr("Failed to load TypeScript"))
    /\ rtTs' = (rtTs \/ ok)
    /\ UNCHANGED <<rtOut, rtErrs, notLibVars>>

\* TanaRuntime::bootstrap: a script that declares a name already declared by
\* an earlier script does not compile
RtBootstrap ==
    /\ IF ~rtTs
       THEN /\ rtRet' = RtCall("bootstrap", NoCode, RtErr(NotLoadedMsg))
            /\ UNCHANGED rtGlobals
       ELSE IF BootstrapDeclares \cap rtGlobals # {}
       THEN /\ rtRet' = RtCall("bootstrap", NoCode, RtErr("Bootstrap failed: SyntaxError"))
            /\ UNCHANGED rtGlobals
       ELSE /\ rtRet' = RtCall("bootstrap", NoCode, RtOk(<<>>))
            /\ rtGlobals' = BootstrapGlobals(rtGlobals)
    /\ UNCHANGED <<rtTs, rtUndef, rtOut, rtErrs, notLibVars>>

\* the user code, evaluated by the indirect eval: its var and function
\* declarations are instantiated in the global scope before its first
\* statement runs, so it may read the names it declares itself
UserCodeRuns(code) ==
    /\ code.uses \subseteq (rtGlobals \cup code.defs)
    /\ (code.logs \/ code.errs) => "__tanaImport" \in rtGlobals

\* the names undefined after the user code was instantiated: a var it
\* declares that was not bound before is undefined until the code assigns
\* it, and the code assigns the names in `assigned`
UndefAfterRun(code, assigned) ==
    (rtUndef \cup (code.defs \ rtGlobals)) \ (assigned \cap code.defs)

\* TanaRuntime::execute: clear OUTPUT and ERRORS, run the runner script in
\* self.runtime, collect the output.  The runner does not compile when src
\* or out is declared already; it throws at ts.transpileModule when ts is
\* not bound (ReferenceError) or undefined (TypeError).  User code has
\* declared its names and assigned some of them when it ends or throws;
\* when it throws it may have printed its lines before.
Execute(code, assigned, printed) ==
    /\ IF RunnerDeclares \cap rtGlobals # {}
       THEN /\ rtRet' = RtCall("execute", code, RtErr("Execution error: SyntaxError"))
            /\ rtOut' = <<>> /\ rtErrs' = <<>>
            /\ UNCHANGED <<rtGlobals, rtUndef>>
       ELSE IF "ts" \notin rtGlobals
       THEN /\ rtRet' = RtCall("execute", code, RtErr("Execution error: ReferenceError"))
            /\ rtOut' = <<>> /\ rtErrs' = <<>>
            /\ rtGlobals' = rtGlobals \cup RunnerDeclares
            /\ UNCHANGED rtUndef
       ELSE IF "ts" \in rtUndef
       THEN /\ rtRet' = RtCall("execute", code, RtErr("Execution error: TypeError"))
            /\ rtOut' = <<>> /\ rtErrs' = <<>>
            /\ rtGlobals' = rtGlobals \cup RunnerDeclares
            /\ UNCHANGED rtUndef
       ELSE IF ~UserCodeRuns(code)
       THEN /\ rtRet' = RtCall("execute", code, RtErr("Execution error: ReferenceError"))
            /\ rtOut' = IF printed /\ code.logs /\ "__tanaImport" \in rtGlobals
                        THEN <<"line">> ELSE <<>>
            /\ rtErrs' = IF printed /\ code.errs /\ "__tanaImport" \in rtGlobals
                         THEN <<"oops">> ELSE <<>>
            /\ rtGlobals' = rtGlobals \cup RunnerDeclares \cup code.defs
            /\ rtUndef' = UndefAfterRun(code, assigned)
       ELSE /\ rtOut' = IF code.logs THEN <<"line">> ELSE <<>>
            /\ rtErrs' = IF code.errs THEN <<"oops">> ELSE <<>>
            /\ rtRet' = RtCall("execute", code, RtOk(Collect(rtOut', rtErrs')))
            /\ rtGlobals' = rtGlobals \cup RunnerDeclares \cup code.defs
            /\ rtUndef' = UndefAfterRun(code, assigned)
    /\ UNCHANGED <<rtTs, notLibVars>>

\* TanaRuntime::new
LibInit ==
    /\ rtTs = FALSE
    /\ rtGlobals = {"Deno"}
    /\ rtUndef = {}
    /\ rtOut = <<>>
    /\ rtErrs = <<>>
    /\ rtRet = NoRtCall
    /\ StoreIdle /\ NetIdle /\ BootIdle /\ TxIdle /\ DispIdle /\ ConcIdle /\ ProcIdle
    /\ SelIdle /\ EqIdle

LibNext ==
    \/ \E ok \in BOOLEAN, leaves \in Leaves : LoadTypescript(ok, leaves)
    \/ RtBootstrap
    \/ \E c \in Programs, assigned \in SUBSET UserNames, printed \in BOOLEAN :
          Execute(c, assigned, printed)

SpecLib == LibInit /\ [][LibNext]_vars

(***************************************************************************)
(* Isolates: properties                                                    *)
(***************************************************************************)
\* C19 (as claimed): every invocation runs in a fresh isolate: when an
\* invocation starts, no name bound by an earlier invocation is in its global
\* scope, and no invocation fails on a binding an earlier one left behind.
C19_FreshIsolatePerInvocation ==
    [][\A c \in Programs, assigned \in SUBSET UserNames, printed \in BOOLEAN :
         (rtRet'.op = "execute" /\ Execute(c, assigned, printed))
           => /\ rtGlobals \cap (RunnerDeclares \cup UserNames) = {}
              /\ rtRet'.res.err # "Execution error: SyntaxError"]_vars

\* C36: bootstrap succeeds only on an instance in the loaded state, which
\* an instance enters only by a load_typescript that succeeds; on an instance
\* not in it bootstrap returns the not-loaded error and runs no script (the
\* isolate's globals are untouched); and a load_typescript that fails on
\* such an instance leaves it not loaded, whatever its script left behind.
C36_Step ==
    /\ (rtRet'.op = "bootstrap" /\ RtBootstrap)
         => /\ rtRet'.res.ok => rtTs
            /\ ~rtTs => /\ rtRet'.res = RtErr(NotLoadedMsg)
                        /\ rtGlobals' = rtGlobals
    /\ (~rtTs /\ rtTs') => (rtRet'.op = "load_typescript" /\ rtRet'.res.ok)
    /\ \A leaves \in Leaves :
         (rtRet'.op = "load_typescript" /\ ~rtRet'.res.ok /\ ~rtTs
            /\ LoadTypescript(FALSE, leaves))
           => ~rtTs'

C36_BootstrapNeedsCompiler == [][C36_Step]_vars

\* C36 witness: bootstrap has succeeded on an instance with the compiler
C36_Witness ==
    /\ rtRet.op = "bootstrap"
    /\ rtRet.res.ok
    /\ rtTs
    /\ "__tanaImport" \in rtGlobals

\* a bootstrapped instance: the compiler and the import shim are bound
Bootstrapped ==
    rtTs /\ {"ts", "__tanaImport"} \subseteq rtGlobals /\ "ts" \notin rtUndef

\* C37 (as claimed): on a bootstrapped instance every execute of valid code
\* (code that reads no global it has not been given) succeeds, whatever calls
\* came before, and returns exactly the output printed during that call.
C37_ExecuteRepeatable ==
    [][\A c \in Programs, assigned \in SUBSET UserNames, printed \in BOOLEAN :
         (Bootstrapped /\ c.uses = {} /\ rtRet'.op = "execute"
            /\ Execute(c, assigned, printed))
           => /\ rtRet'.res.ok
              /\ rtRet'.res.out = Collect(IF c.logs THEN <<"line">> ELSE <<>>,
                                           IF c.errs THEN <<"oops">> ELSE <<>>)]_vars

(***************************************************************************)
(* The staged store under concurrent invocations.  Every handler runs on   *)
(* its own blocking thread; STORAGE and STAGING are process-wide, each     *)
(* behind its own mutex.  A step of an op runs from one lock acquisition   *)
(* to the next; an op that is between two steps holds the locks it has     *)
(* taken and waits for the next one.                                       *)
(*   set, delete     STAGING                                               *)
(*   get, has        STAGING, then (key not staged) STORAGE                *)
(*   keys, clear     STORAGE, then STAGING                                 *)
(*   commit          STORAGE, then STAGING (validate, apply), unlock       *)
(*                   STAGING, then STAGING again (clear the buffer)        *)
(***************************************************************************)
ConcKeys == {KA, KB}
ConcValues == {VSmall, VMax, VOver}

\* an invocation that is inside no store op, and one inside op at, called
\* with key
Idle == [at |-> "idle", key |-> <<>>]
Inside(at, key) == [at |-> at, key |-> key]

\* op_data_set by invocation i: the size checks take no lock
ConcSet(i, key, value) ==
    /\ tpc[i] = Idle
    /\ SetCheck(key, value).ok => stagingLock = 0
    /\ staging' = IF SetCheck(key, value).ok
                  THEN Insert(staging, key, Some(value))
                  ELSE staging
    /\ last' = Call("set", key, value, SetCheck(key, value), <<>>)
    /\ UNCHANGED <<storage, storageLock, stagingLock, inflight, tpc, notConcVars>>

\* op_data_delete by invocation i
ConcDelete(i, key) ==
    /\ tpc[i] = Idle
    /\ stagingLock = 0
    /\ staging' = Insert(staging, key, None)
    /\ last' = Call("delete", key, NoVal, Ok, <<>>)
    /\ UNCHANGED <<storage, storageLock, stagingLock, inflight, tpc, notConcVars>>

\* op_data_get / op_data_has by invocation i, first step: lock STAGING and
\* return the staged entry if there is one, else go on holding the lock
ReadLockStaging(i, op, key) ==
    /\ tpc[i] = Idle
    /\ stagingLock = 0
    /\ IF key \in DOMAIN staging
       THEN /\ last' = Call(op, key, NoVal, Ok,
                            IF op = "get" THEN staging[key] ELSE staging[key] # None)
            /\ UNCHANGED <<stagingLock, tpc>>
       ELSE /\ stagingLock' = i
            /\ tpc' = [tpc EXCEPT ![i] = Inside(op, key)]
            /\ last' = last
    /\ UNCHANGED <<storage, staging, storageLock, inflight, notConcVars>>

\* op_data_get / op_data_has, second step: lock STORAGE, read, unlock both
ReadLockStorage(i) ==
    /\ tpc[i].at \in {"get", "has"}
    /\ storageLock = 0
    /\ last' = Call(tpc[i].at, tpc[i].key, NoVal, Ok,
                    IF tpc[i].at = "get"
                    THEN (IF tpc[i].key \in DOMAIN storage
                          THEN Some(storage[tpc[i].key]) ELSE None)
                    ELSE tpc[i].key \in DOMAIN storage)
    /\ stagingLock' = 0
    /\ tpc' = [tpc EXCEPT ![i] = Idle]
    /\ UNCHANGED <<storage, staging, storageLock, inflight, notConcVars>>

\* op_data_keys / op_data_clear / op_data_commit by invocation i, first
\* step: lock STORAGE; clear empties the committed map at once
LockStorage(i, op) ==
    /\ tpc[i] = Idle
    /\ storageLock = 0
    /\ storageLock' = i
    /\ tpc' = [tpc EXCEPT ![i] = Inside(op, <<>>)]
    /\ storage' = IF op = "clear" THEN EmptyMap ELSE storage
    /\ UNCHANGED <<staging, last, stagingLock, inflight, notConcVars>>

\* op_data_keys, second step: lock STAGING, merge, sort, unlock both
KeysLockStaging(i) ==
    /\ tpc[i].at = "keys"
    /\ stagingLock = 0
    /\ last' = Call("keys", None, NoVal, Ok, KeysResult(None))
    /\ storageLock' = 0
    /\ tpc' = [tpc EXCEPT ![i] = Idle]
    /\ UNCHANGED <<storage, staging, stagingLock, inflight, notConcVars>>

\* op_data_clear, second step: lock STAGING, clear the buffer, unlock both
ClearLockStaging(i) ==
    /\ tpc[i].at = "clear"
    /\ stagingLock = 0
    /\ staging' = EmptyMap
    /\ last' = Call("clear", <<>>, NoVal, Ok, <<>>)
    /\ storageLock' = 0
    /\ tpc' = [tpc EXCEPT ![i] = Idle]
    /\ UNCHANGED <<storage, stagingLock, inflight, notConcVars>>

\* op_data_commit, second step, up to drop(staging): lock STAGING, validate,
\* apply, unlock STAGING; a rejected commit returns here
CommitLockApply(i) ==
    LET res == CommitCheck(storage, staging)
    IN  /\ tpc[i].at = "commit"
        /\ stagingLock = 0
        /\ IF res.ok
           THEN /\ storage' = CommitApply(storage, staging)
                /\ inflight' = staging
                /\ tpc' = [tpc EXCEPT ![i] = Inside("applied", <<>>)]
                /\ UNCHANGED <<storageLock, last>>
           ELSE /\ UNCHANGED <<storage, inflight>>
                /\ storageLock' = 0
                /\ tpc' = [tpc EXCEPT ![i] = Idle]
                /\ last' = Call("commit", <<>>, NoVal, res, <<>>)
        /\ UNCHANGED <<staging, stagingLock, notConcVars>>

\* op_data_commit, third step, from the second STAGING.lock(): clear the
\* buffer, return Ok, unlock both
CommitClear(i) ==
    /\ tpc[i].at = "applied"
    /\ stagingLock = 0
    /\ staging' = EmptyMap
    /\ inflight' = EmptyMap
    /\ storageLock' = 0
    /\ tpc' = [tpc EXCEPT ![i] = Idle]
    /\ last' = Call("commit", <<>>, NoVal, Ok, <<>>)
    /\ UNCHANGED <<storage, stagingLock, notConcVars>>

ConcInit ==
    /\ storage = EmptyMap
    /\ staging = EmptyMap
    /\ last = NoCall
    /\ storageLock = 0
    /\ stagingLock = 0
    /\ inflight = EmptyMap
    /\ tpc = [i \in Inv |-> Idle]
    /\ holding = None
    /\ NetIdle /\ BootIdle /\ TxIdle /\ DispIdle /\ LibIdle /\ ProcIdle /\ SelIdle /\ EqIdle

ConcNext ==
    \/ \E i \in Inv, k \in ConcKeys, v \in ConcValues : ConcSet(i, k, v)
    \/ \E i \in Inv, k \in ConcKeys : ConcDelete(i, k)
    \/ \E i \in Inv, op \in {"get", "has"}, k \in ConcKeys : ReadLockStaging(i, op, k)
    \/ \E i \in Inv : ReadLockStorage(i)
    \/ \E i \in Inv, op \in {"keys", "clear", "commit"} : LockStorage(i, op)
    \/ \E i \in Inv : KeysLockStaging(i)
    \/ \E i \in Inv : ClearLockStaging(i)
    \/ \E i \in Inv : CommitLockApply(i)
    \/ \E i \in Inv : CommitClear(i)

SpecConc == ConcInit /\ [][ConcNext]_vars


(***************************************************************************)
(* The process-wide state across invocations.  STORAGE, STAGING,           *)
(* TX_CHANGES and MOCK_GAS_USED are statics of the server process; every   *)
(* request runs run_contract on its own thread with a new isolate, and the *)
(* ops of all of them read and write the same statics.  The ops of         *)
(* different invocations interleave op by op, and with the steps of a      *)
(* commit that holds STORAGE.  The history variables record who staged or  *)
(* queued what and what the receipts returned.                             *)
(***************************************************************************)
ProcKeys == {KA}
ProcValues == {VSmall}
\* one amount transfer accepts and one it rejects
ProcAmounts == {Fin(1), Fin(0)}
\* one amount setBalance accepts and one it rejects
BalanceAmounts == {Fin(0), Fin(0 - 1)}

\* the number of changes queued in a behaviour
MaxTags == 3
\* the cumulative counter starts this many changes below the limit
ProcHeadroom == 1
GasStart == MOCK_GAS_LIMIT - GasPerChange * ProcHeadroom

Tag(by, id) == [by |-> by, id |-> id]
TagIds(ts) == [n \in 1..Len(ts) |-> ts[n].id]
Rejected(by, n) == [by |-> by, n |-> n]

\* the outcomes of run_contract: Ok with a result, or Err with a message; the
\* thread is gone either way
RunOutcomes == {"Ok", "Err"}

\* a run_contract that begins by resetting the staging buffer and the pending
\* queue
StartInvocationFresh(i) ==
    /\ run[i] = "idle"
    /\ run' = [run EXCEPT ![i] = "running"]
    /\ staging' = EmptyMap
    /\ stagedBy' = EmptyMap
    /\ txChanges' = <<>>
    /\ tags' = <<>>
    /\ UNCHANGED <<storage, last, holding, gasUsed, txRet, actor, nextTag,
                   returned, failed, notProcVars>>

\* run_contract begins for invocation i: a new isolate, the same statics
StartInvocation(i) ==
    /\ run[i] = "idle"
    /\ run' = [run EXCEPT ![i] = "running"]
    /\ UNCHANGED <<storeVars, txVars, actor, stagedBy, tags, nextTag, returned, failed,
                   notProcVars>>

\* run_contract returns for invocation i, with a result or with an error
EndInvocation(i, outcome) ==
    /\ run[i] = "running" /\ ~Busy(i)
    /\ outcome \in RunOutcomes
    /\ run' = [run EXCEPT ![i] = "idle"]
    /\ UNCHANGED <<storeVars, txVars, actor, stagedBy, tags, nextTag, returned, failed,
                   notProcVars>>

\* op_data_set called by invocation i
SetBy(i, key, value) ==
    /\ run[i] = "running" /\ ~Busy(i)
    /\ Stuck => ~SetCheck(key, value).ok
    /\ staging' = IF SetCheck(key, value).ok
                  THEN Insert(staging, key, Some(value))
                  ELSE staging
    /\ stagedBy' = IF SetCheck(key, value).ok
                   THEN Insert(stagedBy, key, i)
                   ELSE stagedBy
    /\ holding' = holding
    /\ last' = Call("set", key, value, SetCheck(key, value), <<>>)
    /\ actor' = i
    /\ UNCHANGED <<storage, txVars, run, tags, nextTag, returned, failed, notProcVars>>

\* op_data_get called by invocation i
GetBy(i, key) ==
    /\ run[i] = "running" /\ ~Busy(i)
    /\ ~Stuck
    /\ Held => key \in DOMAIN staging
    /\ last' = Call("get", key, NoVal, Ok, GetValue(key))
    /\ actor' = i
    /\ UNCHANGED <<storage, staging, holding, txVars, run, stagedBy, tags, nextTag,
                   returned, failed, notProcVars>>

\* op_data_get called by invocation i for a key that is not staged, while
\* the commit of another invocation holds STORAGE and has yet to take
\* STAGING
GetBlocksBy(i, key) ==
    /\ run[i] = "running" /\ ~Busy(i)
    /\ Held /\ ~Stuck
    /\ key \notin DOMAIN staging
    /\ holding' = Some([holding[1] EXCEPT !.reader = i])
    /\ UNCHANGED <<storage, staging, last, txVars, procVars, notProcVars>>

\* op_data_commit called by invocation i, to its STORAGE.lock()
CommitLockBy(i) ==
    /\ run[i] = "running" /\ ~Busy(i)
    /\ ~Held
    /\ holding' = Hold(i, "commit", "locked")
    /\ UNCHANGED <<storage, staging, last, txVars, procVars, notProcVars>>

\* op_data_commit of invocation i from its first STAGING.lock() to
\* drop(staging)
CommitBy(i) ==
    LET res == CommitCheck(storage, staging)
    IN  /\ HeldBy("commit", "locked") /\ ~Stuck
        /\ holding[1].by = i
        /\ IF res.ok
           THEN /\ storage' = CommitApply(storage, staging)
                /\ holding' = Hold(i, "commit", "applied")
                /\ UNCHANGED <<last, actor>>
           ELSE /\ storage' = storage
                /\ holding' = None
                /\ last' = Call("commit", <<>>, NoVal, res, <<>>)
                /\ actor' = i
        /\ UNCHANGED <<staging, stagedBy, txVars, run, tags, nextTag, returned, failed,
                       notProcVars>>

\* op_data_commit of invocation i from its second STAGING.lock() on
CommitClearBy(i) ==
    /\ InGap /\ ~Stuck
    /\ holding[1].by = i
    /\ staging' = EmptyMap
    /\ stagedBy' = EmptyMap
    /\ holding' = None
    /\ last' = Call("commit", <<>>, NoVal, Ok, <<>>)
    /\ actor' = i
    /\ UNCHANGED <<storage, txVars, run, tags, nextTag, returned, failed, notProcVars>>

\* op_tx_transfer called by invocation i
TransferBy(i, from, to, amount, currency) ==
    LET res == TransferCheck(from, to, amount)
    IN  /\ run[i] = "running" /\ ~Busy(i)
        /\ res.ok => nextTag < MaxTags
        /\ IF res.ok
           THEN /\ txChanges' = Append(txChanges, TransferChange(from, to, amount, currency))
                /\ tags' = Append(tags, Tag(i, nextTag + 1))
                /\ nextTag' = nextTag + 1
           ELSE UNCHANGED <<txChanges, tags, nextTag>>
        /\ txRet' = TxCall("transfer", res)
        /\ actor' = i
        /\ UNCHANGED <<storeVars, gasUsed, run, stagedBy, returned, failed, notProcVars>>

\* op_tx_set_balance called by invocation i
SetBalanceBy(i, user_id, amount, currency) ==
    LET res == SetBalanceCheck(amount)
    IN  /\ run[i] = "running" /\ ~Busy(i)
        /\ res.ok => nextTag < MaxTags
        /\ IF res.ok
           THEN /\ txChanges' = Append(txChanges, BalanceChange(user_id, amount, currency))
                /\ tags' = Append(tags, Tag(i, nextTag + 1))
                /\ nextTag' = nextTag + 1
           ELSE UNCHANGED <<txChanges, tags, nextTag>>
        /\ txRet' = TxCall("setBalance", res)
        /\ actor' = i
        /\ UNCHANGED <<storeVars, gasUsed, run, stagedBy, returned, failed, notProcVars>>

\* an op_tx_execute whose success branch leaves the pending queue in place
ExecuteByKeepQueue(i) ==
    LET gas_used == GasPerChange * Len(txChanges)
        new_gas_total == gasUsed + gas_used
    IN  /\ run[i] = "running" /\ ~Busy(i)
        /\ IF new_gas_total > MOCK_GAS_LIMIT
           THEN /\ txChanges' = <<>>
                /\ tags' = <<>>
                /\ gasUsed' = gasUsed
                /\ txRet' = TxCall("execute", JsOk(ExecuteRollback))
                /\ failed' = Append(failed, Rejected(i, Len(txChanges)))
                /\ UNCHANGED returned
           ELSE /\ gasUsed' = new_gas_total
                /\ UNCHANGED <<txChanges, tags>>
                /\ txRet' = TxCall("execute", JsOk(ExecuteSuccess(txChanges, gas_used)))
                /\ returned' = returned \o tags
                /\ UNCHANGED failed
        /\ actor' = i
        /\ UNCHANGED <<storeVars, run, stagedBy, nextTag, notProcVars>>

\* an op_tx_execute whose rollback branch resets the cumulative counter
ExecuteByResetGas(i) ==
    LET gas_used == GasPerChange * Len(txChanges)
        new_gas_total == gasUsed + gas_used
    IN  /\ run[i] = "running" /\ ~Busy(i)
        /\ IF new_gas_total > MOCK_GAS_LIMIT
           THEN /\ txChanges' = <<>>
                /\ tags' = <<>>
                /\ gasUsed' = GasStart
                /\ txRet' = TxCall("execute", JsOk(ExecuteRollback))
                /\ failed' = Append(failed, Rejected(i, Len(txChanges)))
                /\ UNCHANGED returned
           ELSE /\ gasUsed' = new_gas_total
                /\ txChanges' = <<>>
                /\ tags' = <<>>
                /\ txRet' = TxCall("execute", JsOk(ExecuteSuccess(txChanges, gas_used)))
                /\ returned' = returned \o tags
                /\ UNCHANGED failed
        /\ actor' = i
        /\ UNCHANGED <<storeVars, run, stagedBy, nextTag, notProcVars>>

\* op_tx_execute called by invocation i
ExecuteBy(i) ==
    LET gas_used == GasPerChange * Len(txChanges)
        new_gas_total == gasUsed + gas_used
    IN  /\ run[i] = "running" /\ ~Busy(i)
        /\ IF new_gas_total > MOCK_GAS_LIMIT
           THEN /\ txChanges' = <<>>
                /\ tags' = <<>>
                /\ gasUsed' = gasUsed
                /\ txRet' = TxCall("execute", JsOk(ExecuteRollback))
                /\ failed' = Append(failed, Rejected(i, Len(txChanges)))
                /\ UNCHANGED returned
           ELSE /\ gasUsed' = new_gas_total
                /\ txChanges' = <<>>
                /\ tags' = <<>>
                /\ txRet' = TxCall("execute", JsOk(ExecuteSuccess(txChanges, gas_used)))
                /\ returned' = returned \o tags
                /\ UNCHANGED failed
        /\ actor' = i
        /\ UNCHANGED <<storeVars, run, stagedBy, nextTag, notProcVars>>

ProcInit ==
    /\ storage = EmptyMap
    /\ staging = EmptyMap
    /\ last = NoCall
    /\ holding = None
    /\ txChanges = <<>>
    /\ gasUsed = GasStart
    /\ txRet = NoTxCall
    /\ run = [i \in Inv |-> "idle"]
    /\ actor = 0
    /\ stagedBy = EmptyMap
    /\ tags = <<>>
    /\ nextTag = 0
    /\ returned = <<>>
    /\ failed = <<>>
    /\ NetIdle /\ BootIdle /\ DispIdle /\ LibIdle /\ ConcIdle /\ SelIdle /\ EqIdle

ProcNext ==
    \/ \E i \in Inv : StartInvocation(i)
    \/ \E i \in Inv, o \in RunOutcomes : EndInvocation(i, o)
    \/ \E i \in Inv, k \in ProcKeys, v \in ProcValues : SetBy(i, k, v)
    \/ \E i \in Inv, k \in ProcKeys : GetBy(i, k)
    \/ \E i \in Inv : CommitLockBy(i)
    \/ \E i \in Inv : CommitBy(i)
    \/ \E i \in Inv : CommitClearBy(i)
    \/ \E i \in Inv, k \in ProcKeys : GetBlocksBy(i, k)
    \/ \E i \in Inv, a \in ProcAmounts, c \in Currencies : TransferBy(i, "alice", "bob", a, c)
    \/ \E i \in Inv : ExecuteBy(i)

SpecProc == ProcInit /\ [][ProcNext]_vars

\* the ledger ops of invocations that are all in flight at once
LedgerInit ==
    /\ storage = EmptyMap
    /\ staging = EmptyMap
    /\ last = NoCall
    /\ holding = None
    /\ txChanges = <<>>
    /\ gasUsed = GasStart
    /\ txRet = NoTxCall
    /\ run = [i \in Inv |-> "running"]
    /\ actor = 0
    /\ stagedBy = EmptyMap
    /\ tags = <<>>
    /\ nextTag = 0
    /\ returned = <<>>
    /\ failed = <<>>
    /\ NetIdle /\ BootIdle /\ DispIdle /\ LibIdle /\ ConcIdle /\ SelIdle /\ EqIdle

LedgerNext ==
    \/ \E i \in Inv, a \in ProcAmounts, c \in Currencies : TransferBy(i, "alice", "bob", a, c)
    \/ \E i \in Inv, a \in BalanceAmounts, c \in Currencies : SetBalanceBy(i, "alice", a, c)
    \/ \E i \in Inv : ExecuteBy(i)

SpecLedger == LedgerInit /\ [][LedgerNext]_vars

(***************************************************************************)
(* Concurrent store: properties                                            *)
(***************************************************************************)
\* C20 (as claimed): a set or delete that completes while another invocation's
\* commit is in progress is either part of what that commit applied to
\* committed storage or still staged when that commit returns; it is never
\* dropped uncommitted.
C20_NoStagedWriteLost ==
    [][\A i \in Inv :
         CommitClear(i)
           => \A k \in DOMAIN staging :
                \/ k \in DOMAIN inflight /\ inflight[k] = staging[k]
                \/ k \in DOMAIN staging' /\ staging'[k] = staging[k]]_vars

(***************************************************************************)
(* Ledger queries: properties                                              *)
(***************************************************************************)
\* an array argument all of whose elements are string ids
AllStringIds(input) ==
    input.t = "array" /\ \A i \in 1..Len(input.a) : input.a[i].t = "string"

\* C21 (as claimed): a query given a single id returns a single value (null,
\* or 0 for a balance, when not found); given a sequence of n ids, n = 1
\* included, it returns a sequence of exactly n results in input order, each
\* slot resolved on its own.
C21_ShapeSymmetric ==
    (fret.op \in Queries /\ fret.res.ok)
      => /\ fret.arg.t = "string"
              => fret.res.msg = <<"single", Lookup(fret.op, fret.arg.s)>>
         /\ AllStringIds(fret.arg)
              => /\ fret.res.msg[1] = "array"
                 /\ Len(fret.res.msg[2]) = Len(fret.arg.a)
                 /\ \A i \in 1..Len(fret.arg.a) :
                       fret.res.msg[2][i] = Lookup(fret.op, fret.arg.a[i].s)

\* C22: a query given more than MAX_BATCH_QUERY ids returns an error and sends
\* no request to the ledger API; a query given exactly MAX_BATCH_QUERY ids
\* passes the limit and sends its request.
C22_BatchLimit ==
    [][/\ \A q \in Queries, a \in IdInputs :
            (AllStringIds(a) /\ OpBlockQuery(q, a))
              => /\ Len(a.a) > MAX_BATCH_QUERY
                      => /\ fret'.op = q /\ fret'.arg = a
                         /\ ~fret'.res.ok
                         /\ fret'.res.class = "Error"
                         /\ net' = net
                 /\ Len(a.a) = MAX_BATCH_QUERY
                      => net' = Append(net, Request(q, ledgerHost))
       /\ \A c \in BagToSet(awaiting) :
            (c.op \in Queries /\ AllStringIds(c.arg)
               /\ Len(c.arg.a) = MAX_BATCH_QUERY /\ QueryReturn(c, "ok"))
              => /\ fret'.res.ok
                 /\ fret'.res.msg[1] = "array"
                 /\ Len(fret'.res.msg[2]) = MAX_BATCH_QUERY]_vars

\* C22 witness: a query of ten ids was sent and answered, then a query of
\* eleven ids was refused without a request
C22_Witness ==
    /\ fret.op \in Queries
    /\ AllStringIds(fret.arg)
    /\ Len(fret.arg.a) = MAX_BATCH_QUERY + 1
    /\ ~fret.res.ok
    /\ Len(net) = 1
    /\ net[1].by = "op_block_get_user"

\* C24 (as claimed): concurrent store operations never deadlock: no state is
\* reachable in which one operation holds the STAGING lock and waits for the
\* STORAGE lock while another holds the STORAGE lock and waits for the
\* STAGING lock.
C24_NoLockCycle ==
    ~ \E i \in Inv, j \in Inv :
        /\ i # j
        /\ stagingLock = i /\ tpc[i].at \in {"get", "has"}
        /\ storageLock = j /\ tpc[j].at \in {"keys", "clear", "commit", "applied"}

(***************************************************************************)
(* Process-wide state: properties                                          *)
(***************************************************************************)
\* C23: the store and the ledger are process-wide.  A get by any invocation
\* returns the staged entry whoever staged it; a successful commit by any
\* invocation writes every staged value whoever staged it; a successful
\* execute by any invocation returns the whole pending queue whoever queued
\* it; and the start and the end of an invocation, with a result or with an
\* error, leave storage, staging, the pending queue and the gas counter as
\* they are.
C23_Step ==
    /\ \A i \in Inv, k \in ProcKeys :
          (k \in DOMAIN staging /\ GetBy(i, k)) => last'.out = staging[k]
    /\ \A i \in Inv :
          (HeldBy("commit", "locked") /\ InGap' /\ CommitBy(i))
            => \A k \in DOMAIN staging :
                  staging[k] # None
                    => k \in DOMAIN storage' /\ storage'[k] = staging[k][1]
    /\ \A i \in Inv :
          (txRet'.op = "execute" /\ txRet'.res.msg.success /\ ExecuteBy(i))
            => txRet'.res.msg.changes = txChanges
    /\ \A i \in Inv, o \in RunOutcomes :
          (StartInvocation(i) \/ EndInvocation(i, o))
            => /\ staging' = staging /\ storage' = storage
               /\ txChanges' = txChanges /\ gasUsed' = gasUsed
C23_ProcessGlobal == [][C23_Step]_vars

\* invocation 1 staged a key and queued a change and has ended; invocation 2
\* has read the key back and its execute has returned the change
C23_Witness ==
    /\ run[1] = "idle" /\ run[2] = "running" /\ actor = 2
    /\ KA \in DOMAIN stagedBy /\ stagedBy[KA] = 1
    /\ last.op = "get" /\ last.out = Some(VSmall)
    /\ txRet.op = "execute" /\ txRet.res.msg.success
    /\ Len(txRet.res.msg.changes) = 1
    /\ Len(returned) = 1 /\ returned[1].by = 1

(***************************************************************************)
(* Staged store: reads, properties                                         *)
(***************************************************************************)
\* the keys a read can tell apart: those of either layer and those the ops
\* are called with
Candidates == DOMAIN storage \cup DOMAIN staging \cup OpKeys \cup SetKeys

\* the elements of a sequence
Range(seq) == {seq[n] : n \in 1..Len(seq)}

\* C25: keys() with no pattern returns exactly the live keys (committed and
\* not staged for delete, or staged for write), each once, in ascending
\* byte order; and a key is listed iff has is true of it iff get returns a
\* value for it.  (Until the next write; a clear writes to storage before
\* it returns.)
C25_KeysAreLiveKeys ==
    (last.op = "keys" /\ last.key = None /\ ~HeldBy("clear", "locked"))
      => /\ Range(last.out) =
              {k \in Candidates :
                  \/ k \in DOMAIN storage /\ ~(k \in DOMAIN staging /\ staging[k] = None)
                  \/ k \in DOMAIN staging /\ staging[k] # None}
         /\ \A m, n \in 1..Len(last.out) : m < n => StrLess(last.out[m], last.out[n])
         /\ \A k \in Candidates :
              /\ k \in Range(last.out) <=> HasKey(k)
              /\ HasKey(k) <=> GetValue(k) # None

\* keys() has listed two or more keys while a committed key is staged for
\* delete and a key that is not committed is staged for write
C25_Witness ==
    /\ last.op = "keys" /\ last.key = None
    /\ Len(last.out) >= 2
    /\ \E k \in DOMAIN staging : staging[k] = None /\ k \in DOMAIN storage
    /\ \E k \in DOMAIN staging : staging[k] # None /\ k \notin DOMAIN storage

\* a glob over the whole key: "*" matches any sequence of characters, every
\* other pattern character matches itself only
RECURSIVE GlobMatch(_, _)
GlobMatch(p, s) ==
    IF p = <<>> THEN s = <<>>
    ELSE IF Head(p) = "*"
         THEN \E i \in 0..Len(s) : GlobMatch(Tail(p), SubSeq(s, i + 1, Len(s)))
         ELSE /\ s # <<>>
              /\ Head(p) = Head(s)
              /\ GlobMatch(Tail(p), Tail(s))

\* C26 (as claimed): keys(pattern) returns exactly the live keys that match
\* the pattern as a glob over the whole key, "*" matching any sequence and
\* every other pattern character matching itself only.
C26_GlobSelectsKeys ==
    (last.op = "keys" /\ last.key # None /\ ~HeldBy("clear", "locked"))
      => Range(last.out) = {k \in Candidates : HasKey(k) /\ GlobMatch(last.key[1], k)}

\* C27: clear() empties committed storage and staging at once: when it
\* returns both maps are empty, keys() lists nothing and has is false of
\* every key either layer held, with no commit; and committed storage only
\* gets a key again through a commit.
C27_Step ==
    /\ (last'.op = "clear" /\ DataClear)
          => /\ storage' = EmptyMap
             /\ staging' = EmptyMap
             /\ KeysResult(None)' = <<>>
             /\ \A k \in Candidates : ~HasKey(k)' /\ GetValue(k)' = None
    /\ (storage = EmptyMap /\ storage' # EmptyMap)
          => (HeldBy("commit", "locked") /\ InGap')
C27_ClearIsImmediate == [][C27_Step]_vars

\* clear has returned and both layers are empty
C27_Witness ==
    last.op = "clear" /\ storage = EmptyMap /\ staging = EmptyMap

\* what op_data_keys returns for a merged key set: the keys the pattern
\* selects, sorted
Listing(keys, pattern) ==
    SortKeys(IF pattern = None THEN keys
             ELSE {k \in keys : RegexMatch(pattern[1], k)})

\* what get returns for a key of a committed map under no staging
Stored(store, k) == IF k \in DOMAIN store THEN Some(store[k]) ELSE None

\* C28: a successful commit is transparent to reads.  Its apply changes get
\* and has of no key, nor the live key set, nor any listing keys() can
\* return, and leaves committed storage giving those reads by itself; while
\* it is in progress committed storage does not change; and when it returns
\* every read is the read of committed storage: the reads right after the
\* commit are the reads right before it.
C28_Step ==
    /\ (HeldBy("commit", "locked") /\ InGap' /\ DataCommit)
         => /\ \A k \in Candidates :
                 /\ GetValue(k)' = GetValue(k)
                 /\ HasKey(k)' = HasKey(k)
                 /\ GetValue(k) = Stored(storage', k)
            /\ AllKeys' = AllKeys
            /\ AllKeys = DOMAIN storage'
            /\ Cardinality(AllKeys) <= MaxListed
                 => \A p \in Patterns :
                       /\ KeysResult(p) = Listing(AllKeys, p)
                       /\ Listing(AllKeys', p) = Listing(AllKeys, p)
    /\ InGap => storage' = storage
    /\ (InGap /\ last'.op = "commit" /\ last'.res.ok /\ DataCommitClear)
         => /\ \A k \in Candidates :
                 /\ GetValue(k)' = Stored(storage, k)
                 /\ HasKey(k)' = (k \in DOMAIN storage)
            /\ AllKeys' = DOMAIN storage
C28_CommitTransparent == [][C28_Step]_vars

\* a commit has returned Ok after writing a staged key and removing a
\* committed one
C28_Witness ==
    /\ last.op = "commit" /\ last.res.ok /\ ~last.again
    /\ staging = EmptyMap
    /\ KB \in DOMAIN storage /\ KA \notin DOMAIN storage
    /\ NumKey(2) \in DOMAIN storage

(***************************************************************************)
(* Process-wide ledger: properties                                         *)
(***************************************************************************)
\* C29: the gas counter never decreases and changes only in a successful
\* execute, by GasPerChange times the length of the batch; and once an
\* execute of a batch of n changes has been rejected, every later execute of
\* a batch of n or more changes, by any invocation, is rejected with "Out of
\* gas".
C29_Step ==
    /\ gasUsed' >= gasUsed
    /\ gasUsed' # gasUsed
          => /\ txRet'.op = "execute" /\ txRet'.res.msg.success
             /\ gasUsed' = gasUsed + GasPerChange * Len(txChanges)
             /\ \E i \in Inv : ExecuteBy(i)
    /\ \A i \in Inv :
          (/\ txRet'.op = "execute"
           /\ \E n \in 1..Len(failed) : Len(txChanges) >= failed[n].n
           /\ ExecuteBy(i))
            => /\ ~txRet'.res.msg.success
               /\ txRet'.res.msg.error = Some("Out of gas")
C29_GasMonotone == [][C29_Step]_vars

\* after a successful execute, one invocation's execute was rejected and then
\* another invocation's execute of a batch at least as long was rejected
C29_Witness ==
    /\ Len(returned) > 0
    /\ Len(failed) >= 2
    /\ failed[1].by # failed[2].by
    /\ failed[2].n >= failed[1].n
    /\ txRet.op = "execute" /\ ~txRet.res.msg.success

\* C30: under any interleaving of transfer and execute calls of concurrent
\* invocations every queued change is consumed by one execute: no change is
\* returned by two receipts, no returned change is still pending, every
\* execute leaves the queue empty, a successful one returning exactly what was
\* pending and a rejected one nothing; and the gas charged in total is
\* GasPerChange times the number of changes returned by successful receipts.
C30_State ==
    /\ Len(tags) = Len(txChanges)
    /\ \A m, n \in 1..Len(returned) : m # n => returned[m].id # returned[n].id
    /\ \A m \in 1..Len(tags), n \in 1..Len(returned) : tags[m].id # returned[n].id
    /\ gasUsed - GasStart = GasPerChange * Len(returned)
C30_Step ==
    \A i \in Inv :
        (txRet'.op = "execute" /\ ExecuteBy(i))
          => /\ txChanges' = <<>> /\ tags' = <<>>
             /\ IF txRet'.res.msg.success
                THEN /\ txRet'.res.msg.changes = txChanges
                     /\ TagIds(returned') = TagIds(returned) \o TagIds(tags)
                ELSE /\ txRet'.res.msg.changes = <<>>
                     /\ returned' = returned
C30_ConsumedOnce == []C30_State /\ [][C30_Step]_vars

\* one change was returned by a successful execute and two later ones were
\* discarded by a rejected execute of another invocation; nothing is pending
C30_Witness ==
    /\ Len(returned) = 1 /\ returned[1].id = 1
    /\ Len(failed) = 1 /\ failed[1].n = 2 /\ failed[1].by # returned[1].by
    /\ txChanges = <<>> /\ tags = <<>> /\ nextTag = 3
    /\ txRet.op = "execute" /\ ~txRet.res.msg.success

(***************************************************************************)
(* Transaction ledger: further properties                                  *)
(***************************************************************************)
\* C31: getChanges is a read-only snapshot: it returns the pending changes
\* in the order they were staged and leaves the pending queue and the gas
\* counter as they are, so a getChanges directly after a getChanges returns
\* the same sequence.
C31_Step ==
    (txRet'.op = "getChanges" /\ TxGetChanges)
      => /\ txRet'.res.ok
         /\ txRet'.res.msg = txChanges
         /\ txChanges' = txChanges
         /\ gasUsed' = gasUsed
         /\ txRet.op = "getChanges" => txRet'.res.msg = txRet.res.msg
C31_GetChangesReadOnly == [][C31_Step]_vars

\* getChanges has returned a transfer followed by a balance update, both
\* still pending
C31_Witness ==
    /\ txRet.op = "getChanges"
    /\ Len(txRet.res.msg) = 2
    /\ txRet.res.msg[1].type = "transfer"
    /\ txRet.res.msg[2].type = "balance_update"
    /\ txChanges = txRet.res.msg

\* C32: execute on an empty pending queue succeeds whatever the gas counter
\* is, the limit included: it returns success, no changes, gasUsed 0 and no
\* error, and leaves the gas counter as it is.
C32_Step ==
    (txRet'.op = "execute" /\ txChanges = <<>> /\ TxExecute)
      => /\ txRet'.res.ok
         /\ txRet'.res.msg.success = TRUE
         /\ txRet'.res.msg.changes = <<>>
         /\ txRet'.res.msg.gasUsed = 0
         /\ txRet'.res.msg.error = None
         /\ gasUsed' = gasUsed
         /\ txChanges' = <<>>
C32_EmptyExecuteSucceeds == [][C32_Step]_vars

\* an execute of no changes has succeeded with the gas counter at the limit
C32_Witness ==
    /\ txRet.op = "execute"
    /\ txRet.res.msg.success
    /\ txRet.res.msg.changes = <<>>
    /\ gasUsed = MOCK_GAS_LIMIT

(***************************************************************************)
(* Dispatch: further properties                                            *)
(***************************************************************************)
\* the steps of the invocation in flight at which its isolate exists
IsolateCreated == dpc \in {"bootstrapped", "running", "drained"}

\* C33 (as claimed): every invocation passes the stages in the order Created,
\* CapabilitiesBound, ModulesBootstrapped, SourceLoaded, (Compiled),
\* EntryInvoked, AsyncDrained, ResultExtracted: while an invocation is in
\* progress with its contract source loaded its isolate has been created,
\* contract code only runs in a bootstrapped isolate, and an invocation that
\* ends without a fatal error has drained the event loop and handed back an
\* extracted result.
C33_LifecycleOrder ==
    /\ (dreq.src # NoSource /\ dpc # "responded") => IsolateCreated
    /\ dpc \in {"running", "drained"} => dreq.src # NoSource
    /\ (dpc = "responded" /\ fatal = None) => drained /\ response # None
    /\ proc = "exited" => drained /\ response # None

(***************************************************************************)
(* Contract source selection: execute_contract_with_body picks the         *)
(* contract directory and file, reads it and calls run_contract, which     *)
(* loads the compiler only for a contract that is not pre-compiled.        *)
(* One invocation after another; sel is the invocation in flight.          *)
(***************************************************************************)
\* ./contracts/<id> when it exists, else ../contracts/<id>
ContractDir(here) == IF here THEN "./contracts" ELSE "../contracts"

\* a selection that takes the TypeScript source whenever there is one
ContractPathPreferTs(file) ==
    IF file \in {"ts", "both"} THEN "ts"
    ELSE IF file = "js" THEN "js"
    ELSE "none"

\* js_path.exists(), else ts_path.exists(), else neither
ContractPath(file) ==
    IF file \in {"js", "both"} THEN "js"
    ELSE IF file = "ts" THEN "ts"
    ELSE "none"

NoSelection ==
    [at |-> "idle", method |-> "", dir |-> "", file |-> "", contract_path |-> "",
     is_precompiled |-> FALSE, isolate |-> FALSE, ts_loaded |-> FALSE,
     transpiled |-> FALSE, err |-> ""]

SelFail(msg) == sel' = [sel EXCEPT !.at = "failed", !.err = msg]

\* execute_contract_with_body: locate the contract file
Locate(method, here, file) ==
    /\ sel.at = "idle"
    /\ sel' = [NoSelection EXCEPT
                 !.method = method,
                 !.dir = ContractDir(here),
                 !.file = file,
                 !.contract_path = ContractPath(file),
                 !.is_precompiled = (ContractPath(file) = "js"),
                 !.at = IF ContractPath(file) = "none" THEN "failed" ELSE "located",
                 !.err = IF ContractPath(file) = "none" THEN "Contract not found: " ELSE ""]
    /\ UNCHANGED notSelVars

\* execute_contract_with_body: read the contract file
ReadSource(ok) ==
    /\ sel.at = "located"
    /\ IF ok THEN sel' = [sel EXCEPT !.at = "read"]
       ELSE SelFail("Failed to read contract: ")
    /\ UNCHANGED notSelVars

\* run_contract: JsRuntime::new with the extension
NewIsolate ==
    /\ sel.at = "read"
    /\ sel' = [sel EXCEPT !.at = "created", !.isolate = TRUE]
    /\ UNCHANGED notSelVars

\* run_contract: read and evaluate typescript.js, only if not pre-compiled
LoadTypescriptJs(outcome) ==
    /\ sel.at = "created"
    /\ ~sel.is_precompiled
    /\ outcome \in {"ok", "Missing typescript.js: ", "Failed to load TypeScript: "}
    /\ IF outcome = "ok"
       THEN sel' = [sel EXCEPT !.at = "compiler_loaded", !.ts_loaded = TRUE]
       ELSE SelFail(outcome)
    /\ UNCHANGED notSelVars

\* run_contract: read tana-globals.ts (pre-compiled or not), then run the
\* bootstrap script, full or lightweight
SelBootstrap(outcome) ==
    /\ \/ sel.at = "created" /\ sel.is_precompiled
       \/ sel.at = "compiler_loaded"
    /\ IF outcome = "ok" THEN sel' = [sel EXCEPT !.at = "bootstrapped"]
       ELSE SelFail(outcome)
    /\ UNCHANGED notSelVars

\* run_contract: the runner script; the one for a contract that is not
\* pre-compiled calls ts.transpileModule on the source
SelRunner(ok) ==
    /\ sel.at = "bootstrapped"
    /\ IF ok
       THEN sel' = [sel EXCEPT !.at = "running", !.transpiled = ~sel.is_precompiled]
       ELSE SelFail("Failed to execute contract: ")
    /\ UNCHANGED notSelVars

\* the invocation ends and the next request is taken
SelRespond ==
    /\ sel.at \in {"running", "failed"}
    /\ sel' = NoSelection
    /\ UNCHANGED notSelVars

SelInit ==
    /\ sel = NoSelection
    /\ EqIdle
    /\ StoreIdle /\ NetIdle /\ BootIdle /\ TxIdle /\ DispIdle /\ LibIdle
    /\ ConcIdle /\ ProcIdle

SelNext ==
    \/ \E m \in Methods, here \in BOOLEAN, f \in Files : Locate(m, here, f)
    \/ \E ok \in BOOLEAN : ReadSource(ok)
    \/ NewIsolate
    \/ \E o \in {"ok", "Missing typescript.js: ", "Failed to load TypeScript: "} :
          LoadTypescriptJs(o)
    \/ \E o \in {"ok", "Missing tana-globals.ts: ", "Failed to bootstrap: "} :
          SelBootstrap(o)
    \/ \E ok \in BOOLEAN : SelRunner(ok)
    \/ SelRespond

SpecSelect == SelInit /\ [][SelNext]_vars

(***************************************************************************)
(* Contract source selection: properties                                   *)
(***************************************************************************)
\* C34: source selection prefers the pre-compiled form: with both files the
\* .js is the one loaded and the compiler is neither loaded nor invoked; with
\* only the .ts it is loaded, and the compiler is loaded before the bootstrap
\* and invoked by the runner; with neither the invocation fails with
\* "Contract not found" and no isolate is created.
C34_PrefersPrecompiled ==
    /\ sel.file = "both"
         => /\ sel.contract_path = "js" /\ sel.is_precompiled
            /\ ~sel.ts_loaded /\ ~sel.transpiled
    /\ sel.file = "js" => ~sel.ts_loaded /\ ~sel.transpiled
    /\ sel.file = "ts"
         => /\ sel.contract_path = "ts" /\ ~sel.is_precompiled
            /\ sel.at \in {"bootstrapped", "running"} => sel.ts_loaded
            /\ sel.at = "running" => sel.transpiled
    /\ sel.file = "none"
         => /\ sel.at = "failed" /\ sel.err = "Contract not found: "
            /\ ~sel.isolate

\* with both files present the contract has run from the .js, no compiler
\* loaded
C34_Witness ==
    /\ sel.file = "both" /\ sel.at = "running"
    /\ sel.contract_path = "js" /\ sel.isolate /\ ~sel.ts_loaded

(***************************************************************************)
(* The store and ledger ops of the CLI runtime (src/runtime/src/main.rs),  *)
(* as functions of the CLI process's own statics, and the edge server and  *)
(* the CLI runtime each given the same sequence of calls.                  *)
(***************************************************************************)
CLI_MAX_KEY_SIZE == 256
CLI_MAX_VALUE_SIZE == 10240
CLI_MAX_TOTAL_SIZE == 102400
CLI_MAX_KEYS == 1000
CLI_MOCK_GAS_LIMIT == 1000000

\* op_data_set: the validation
CliSetCheck(key, value) ==
    IF Len(key) > CLI_MAX_KEY_SIZE
    THEN Err("Key too large", Len(key), CLI_MAX_KEY_SIZE)
    ELSE IF value.len > CLI_MAX_VALUE_SIZE
    THEN Err("Value too large", value.len, CLI_MAX_VALUE_SIZE)
    ELSE Ok

\* op_data_get
CliGet(store, stage, key) ==
    IF key \in DOMAIN stage THEN stage[key]
    ELSE IF key \in DOMAIN store THEN Some(store[key])
    ELSE None

\* op_data_has
CliHas(store, stage, key) ==
    IF key \in DOMAIN stage THEN stage[key] # None
    ELSE key \in DOMAIN store

\* op_data_keys
CliKeys(store, stage, pattern) ==
    LET all_keys == (DOMAIN store \ {k \in DOMAIN stage : stage[k] = None})
                        \cup {k \in DOMAIN stage : stage[k] # None}
    IN  SortKeys(IF pattern = None THEN all_keys
                 ELSE {k \in all_keys : RegexMatch(pattern[1], k)})

\* op_data_commit: the totals and the validation
CliCommitCheck(store, stage) ==
    LET kept == {k \in DOMAIN store : ~(k \in DOMAIN stage /\ stage[k] = None)}
        writes == {k \in DOMAIN stage : stage[k] # None}
        total_size == SumSizes(store, kept)
                        + SumSizes([k \in writes |-> stage[k][1]], writes)
        total_keys == Cardinality(kept) + Cardinality(writes \ DOMAIN store)
    IN  IF total_size > CLI_MAX_TOTAL_SIZE
        THEN Err("Storage limit exceeded", total_size, CLI_MAX_TOTAL_SIZE)
        ELSE IF total_keys > CLI_MAX_KEYS
        THEN Err("Too many keys", total_keys, CLI_MAX_KEYS)
        ELSE Ok

\* op_data_commit: the apply loop
CliCommitApply(store, stage) ==
    [k \in (DOMAIN store \ {x \in DOMAIN stage : stage[x] = None})
            \cup {w \in DOMAIN stage : stage[w] # None}
        |-> IF k \in DOMAIN stage THEN stage[k][1] ELSE store[k]]

\* op_tx_transfer and op_tx_set_balance: the validation and the change
CliTransferCheck(from, to, amount) ==
    IF from = to THEN JsError("Error", <<"Cannot transfer to self">>)
    ELSE IF LeZero(amount) THEN JsError("Error", <<"Amount must be positive">>)
    ELSE JsOk(<<>>)
CliSetBalanceCheck(amount) ==
    IF LtZero(amount) THEN JsError("Error", <<"Balance cannot be negative">>)
    ELSE JsOk(<<>>)
CliTransferChange(from, to, amount, currency) ==
    [type |-> "transfer", from |-> from, to |-> to,
     amount |-> JsonF64(amount), currency |-> currency]
CliBalanceChange(user_id, amount, currency) ==
    [type |-> "balance_update", userId |-> user_id,
     amount |-> JsonF64(amount), currency |-> currency]

\* a runtime whose op_tx_execute charges nothing
CliExecuteFree(changes, gas) ==
    [changes |-> <<>>, gasUsed |-> gas,
     ret |-> [success |-> TRUE, changes |-> changes, gasUsed |-> 0, error |-> None]]

\* op_tx_execute: the queue and the counter it leaves, and what it returns
CliExecute(changes, gas) ==
    LET gas_used == 100 * Len(changes)
        new_gas_total == gas + gas_used
    IN  IF new_gas_total > CLI_MOCK_GAS_LIMIT
        THEN [changes |-> <<>>, gasUsed |-> gas,
              ret |-> [success |-> FALSE, changes |-> <<>>,
                       gasUsed |-> CLI_MOCK_GAS_LIMIT, error |-> Some("Out of gas")]]
        ELSE [changes |-> <<>>, gasUsed |-> new_gas_total,
              ret |-> [success |-> TRUE, changes |-> changes,
                       gasUsed |-> gas_used, error |-> None]]

\* the CLI process's call record
CliCall(op, res, out) == [op |-> op, res |-> res, out |-> out]

\* the inputs of the calls made to both
EqKeys == {KA, KLong}
EqValues == {VSmall, VOver}
\* the keys read, and the patterns listed with
EqReadKeys == {KA}
EqPatterns == {None, Some(<<"0", "*">>)}
\* an amount both tx ops accept, and one each rejects
EqTransferAmounts == {Fin(1), Fin(0)}
EqBalanceAmounts == {Fin(1), Fin(0 - 1)}
\* the longest pending queue, and the number of changes charged from zero
MaxEqPending == 2
MaxCharged == 2

BothSet(key, value) ==
    /\ Stuck => ~SetCheck(key, value).ok
    /\ staging' = IF SetCheck(key, value).ok
                  THEN Insert(staging, key, Some(value))
                  ELSE staging
    /\ last' = Call("set", key, value, SetCheck(key, value), <<>>)
    /\ cli' = [cli EXCEPT
                 !.staging = IF CliSetCheck(key, value).ok
                             THEN Insert(@, key, Some(value))
                             ELSE @,
                 !.last = CliCall("set", CliSetCheck(key, value), <<>>)]
    /\ holding' = holding
    /\ overlap' = (overlap \/ Held)
    /\ UNCHANGED <<storage, txVars, notEqVars>>

BothDelete(key) ==
    /\ ~Stuck
    /\ staging' = Insert(staging, key, None)
    /\ last' = Call("delete", key, NoVal, Ok, <<>>)
    /\ cli' = [cli EXCEPT !.staging = Insert(@, key, None),
                          !.last = CliCall("delete", Ok, <<>>)]
    /\ holding' = holding
    /\ overlap' = (overlap \/ Held)
    /\ UNCHANGED <<storage, txVars, notEqVars>>

BothGet(key) ==
    /\ ~Stuck
    /\ Held => key \in DOMAIN staging
    /\ last' = Call("get", key, NoVal, Ok, GetValue(key))
    /\ cli' = [cli EXCEPT
                 !.last = CliCall("get", Ok, CliGet(cli.storage, cli.staging, key))]
    /\ overlap' = (overlap \/ Held)
    /\ UNCHANGED <<storage, staging, holding, txVars, notEqVars>>

BothHas(key) ==
    /\ ~Stuck
    /\ Held => key \in DOMAIN staging
    /\ last' = Call("has", key, NoVal, Ok, HasKey(key))
    /\ cli' = [cli EXCEPT
                 !.last = CliCall("has", Ok, CliHas(cli.storage, cli.staging, key))]
    /\ overlap' = (overlap \/ Held)
    /\ UNCHANGED <<storage, staging, holding, txVars, notEqVars>>

\* the edge server's keys, clear or commit to its STORAGE.lock(); a clear
\* empties committed storage under it
EdgeLock(op) ==
    /\ ~Held
    /\ storage' = IF op = "clear" THEN EmptyMap ELSE storage
    /\ holding' = Hold(1, op, "locked")
    /\ UNCHANGED <<staging, last, cli, overlap, txVars, notEqVars>>

\* the edge server's keys from its STAGING.lock() on, and the CLI's keys
BothKeys(pattern) ==
    /\ HeldBy("keys", "locked") /\ ~Stuck
    /\ last' = Call("keys", pattern, NoVal, Ok, KeysResult(pattern))
    /\ holding' = None
    /\ cli' = [cli EXCEPT
                 !.last = CliCall("keys", Ok, CliKeys(cli.storage, cli.staging, pattern))]
    /\ UNCHANGED <<storage, staging, overlap, txVars, notEqVars>>

\* the edge server's clear from its STAGING.lock() on, and the CLI's clear
BothClear ==
    /\ HeldBy("clear", "locked") /\ ~Stuck
    /\ staging' = EmptyMap
    /\ last' = Call("clear", <<>>, NoVal, Ok, <<>>)
    /\ holding' = None
    /\ cli' = [cli EXCEPT !.storage = EmptyMap, !.staging = EmptyMap,
                          !.last = CliCall("clear", Ok, <<>>)]
    /\ UNCHANGED <<storage, overlap, txVars, notEqVars>>

\* commit in both: the edge server's op from its first STAGING.lock() to
\* drop(staging).  A commit the edge rejects returns at once, and the CLI
\* makes its call; one the edge accepts is applied and stays in progress
BothCommit ==
    LET res == CommitCheck(storage, staging)
        cres2 == CliCommitCheck(cli.storage, cli.staging)
    IN  /\ HeldBy("commit", "locked") /\ ~Stuck
        /\ IF res.ok
           THEN /\ storage' = CommitApply(storage, staging)
                /\ holding' = Hold(1, "commit", "applied")
                /\ UNCHANGED <<last, cli>>
           ELSE /\ storage' = storage
                /\ holding' = None
                /\ last' = Call("commit", <<>>, NoVal, res, <<>>)
                /\ cli' = [cli EXCEPT
                             !.storage = IF cres2.ok THEN CliCommitApply(@, cli.staging)
                                         ELSE @,
                             !.staging = IF cres2.ok THEN EmptyMap ELSE @,
                             !.last = CliCall("commit", cres2, <<>>)]
        /\ UNCHANGED <<staging, overlap, txVars, notEqVars>>

\* the edge server's commit clears the buffer and returns; the CLI, which
\* runs one call at a time, makes its commit call
BothCommitReturn ==
    LET cres2 == CliCommitCheck(cli.storage, cli.staging)
    IN  /\ InGap /\ ~Stuck
        /\ staging' = EmptyMap
        /\ holding' = None
        /\ last' = Call("commit", <<>>, NoVal, Ok, <<>>)
        /\ cli' = [cli EXCEPT
                     !.storage = IF cres2.ok THEN CliCommitApply(@, cli.staging) ELSE @,
                     !.staging = IF cres2.ok THEN EmptyMap ELSE @,
                     !.last = CliCall("commit", cres2, <<>>)]
        /\ UNCHANGED <<storage, overlap, txVars, notEqVars>>

\* a get or has of another request of the edge server, for a key that is
\* not staged, while a keys, clear or commit holds STORAGE and has yet to
\* take STAGING: neither returns
EdgeReadBlocks(key) ==
    /\ Held /\ ~Stuck
    /\ key \notin DOMAIN staging
    /\ holding' = Some([holding[1] EXCEPT !.reader = 2])
    /\ overlap' = TRUE
    /\ UNCHANGED <<storage, staging, last, cli, txVars, notEqVars>>

BothTransfer(from, to, amount, currency) ==
    LET res == TransferCheck(from, to, amount)
        cres2 == CliTransferCheck(from, to, amount)
    IN  /\ res.ok => Len(txChanges) < MaxEqPending
        /\ txChanges' = IF res.ok
                        THEN Append(txChanges, TransferChange(from, to, amount, currency))
                        ELSE txChanges
        /\ txRet' = TxCall("transfer", res)
        /\ cli' = [cli EXCEPT
                     !.txChanges = IF cres2.ok
                                   THEN Append(@, CliTransferChange(from, to, amount, currency))
                                   ELSE @,
                     !.txRet = TxCall("transfer", cres2)]
        /\ overlap' = overlap
        /\ UNCHANGED <<storeVars, gasUsed, notEqVars>>

BothSetBalance(user_id, amount, currency) ==
    LET res == SetBalanceCheck(amount)
        cres2 == CliSetBalanceCheck(amount)
    IN  /\ res.ok => Len(txChanges) < MaxEqPending
        /\ txChanges' = IF res.ok
                        THEN Append(txChanges, BalanceChange(user_id, amount, currency))
                        ELSE txChanges
        /\ txRet' = TxCall("setBalance", res)
        /\ cli' = [cli EXCEPT
                     !.txChanges = IF cres2.ok
                                   THEN Append(@, CliBalanceChange(user_id, amount, currency))
                                   ELSE @,
                     !.txRet = TxCall("setBalance", cres2)]
        /\ overlap' = overlap
        /\ UNCHANGED <<storeVars, gasUsed, notEqVars>>

BothGetChanges ==
    /\ txRet' = TxCall("getChanges", JsOk(txChanges))
    /\ cli' = [cli EXCEPT !.txRet = TxCall("getChanges", JsOk(cli.txChanges))]
    /\ overlap' = overlap
    /\ UNCHANGED <<storeVars, txChanges, gasUsed, notEqVars>>

BothExecute ==
    LET gas_used == GasPerChange * Len(txChanges)
        new_gas_total == gasUsed + gas_used
        c == CliExecute(cli.txChanges, cli.gasUsed)
    IN  /\ \/ new_gas_total <= GasPerChange * MaxCharged
           \/ gasUsed >= MOCK_GAS_LIMIT - GasPerChange
        /\ IF new_gas_total > MOCK_GAS_LIMIT
           THEN /\ txChanges' = <<>>
                /\ gasUsed' = gasUsed
                /\ txRet' = TxCall("execute", JsOk(ExecuteRollback))
           ELSE /\ gasUsed' = new_gas_total
                /\ txChanges' = <<>>
                /\ txRet' = TxCall("execute", JsOk(ExecuteSuccess(txChanges, gas_used)))
        /\ cli' = [cli EXCEPT !.txChanges = c.changes, !.gasUsed = c.gasUsed,
                              !.txRet = TxCall("execute", JsOk(c.ret))]
        /\ overlap' = overlap
        /\ UNCHANGED <<storeVars, notEqVars>>

\* both processes freshly started, or both one change short of the gas limit
EqInit ==
    /\ storage = EmptyMap
    /\ staging = EmptyMap
    /\ last = NoCall
    /\ txChanges = <<>>
    /\ gasUsed \in {0, MOCK_GAS_LIMIT - GasPerChange}
    /\ txRet = NoTxCall
    /\ holding = None
    /\ cli = [storage |-> EmptyMap, staging |-> EmptyMap,
              last |-> CliCall("none", Ok, <<>>),
              txChanges |-> <<>>, gasUsed |-> gasUsed, txRet |-> NoTxCall]
    /\ overlap = FALSE
    /\ NetIdle /\ BootIdle /\ DispIdle /\ LibIdle /\ ConcIdle /\ ProcIdle
    /\ SelIdle

EqNext ==
    \/ \E k \in EqKeys, v \in EqValues : BothSet(k, v)
    \/ \E k \in EqKeys : BothDelete(k)
    \/ \E k \in EqReadKeys : BothGet(k)
    \/ \E k \in EqReadKeys : BothHas(k)
    \/ \E op \in {"keys", "clear", "commit"} : EdgeLock(op)
    \/ \E p \in EqPatterns : BothKeys(p)
    \/ BothClear
    \/ BothCommit
    \/ BothCommitReturn
    \/ \E k \in EqReadKeys : EdgeReadBlocks(k)
    \/ \E t \in Users, a \in EqTransferAmounts, c \in Currencies :
          BothTransfer("alice", t, a, c)
    \/ \E a \in EqBalanceAmounts, c \in Currencies : BothSetBalance("alice", a, c)
    \/ BothGetChanges
    \/ BothExecute

SpecEquiv == EqInit /\ [][EqNext]_vars

(***************************************************************************)
(* Edge server and CLI runtime: properties                                 *)
(***************************************************************************)
\* C35: given the same sequence of store and ledger calls from the same
\* start, each call made when the one before it has returned, the edge
\* server and the CLI runtime return the same results and hold the same
\* committed storage, staging buffer, pending queue and gas counter.  (A
\* store call of the edge server that runs while a keys, clear or commit of
\* another request holds STORAGE is not part of a sequence: C20.)
C35_SameBehaviour ==
    (~Held /\ ~overlap) =>
        /\ cli.storage = storage
        /\ cli.staging = staging
        /\ cli.txChanges = txChanges
        /\ cli.gasUsed = gasUsed
        /\ cli.last.op = last.op /\ cli.last.res = last.res /\ cli.last.out = last.out
        /\ cli.txRet = txRet

\* both have committed a key and both have rejected a batch as out of gas
C35_Witness ==
    /\ ~Held /\ ~overlap
    /\ last.op = "commit" /\ last.res.ok /\ cli.last.res.ok
    /\ KA \in DOMAIN storage /\ KA \in DOMAIN cli.storage
    /\ txRet.op = "execute" /\ ~txRet.res.msg.success
    /\ ~cli.txRet.res.msg.success

====
